---------------------------- MODULE Spec2Model ----------------------------
(***************************************************************************)
(* Bradley AI browser extension: the background service worker             *)
(* (Bradley-Extension/background.js) and the content script                *)
(* (unnamed/part_003).                                                      *)
(*                                                                         *)
(* Every await of the source is a suspension point: a handler runs from    *)
(* one await to the next in one step, and the steps of different handlers  *)
(* interleave freely.                                                      *)
(***************************************************************************)
EXTENDS Integers, Sequences, FiniteSets, TLC

(***************************************************************************)
(* Bounds of the model.                                                    *)
(***************************************************************************)
NumHandlers == 3          \* messages handled concurrently by the worker
MaxInitialCount == 1      \* largest counter value persisted before start
FaultyHandlers == 2       \* messages handled when storage calls may be rejected
MaxRejections == 3        \* rejected storage calls in one behaviour
MaxMedia == 2             \* media elements of a page with mixed sources
MaxWaits == 3             \* times that page waits for its next timer
GalleryMedia == 17        \* media elements of a gallery page
GalleryWaits == 1         \* times a gallery page waits for its next timer
FeedMedia == 22           \* media elements of a feed page
FeedWaits == 8            \* times a feed page waits for its next timer
BelowZero == 5000         \* how far below 0 a confidence handed to an indicator lies
MaxConfidence == 15000    \* largest confidence handed to an indicator
PrivacyMedia == 1         \* media elements of a page with signed sources
PrivacyWaits == 2         \* times that page waits for its next timer
LibraryMedia == 16        \* media elements a library page shows at a time
LibraryWaits == 70        \* times a library page waits for its next timer
WorkerHandlers == 2       \* messages handled concurrently by a worker with a past
ToggleHandlers == 2       \* toggles of the protection under way at once

(***************************************************************************)
(* Constants of background.js.                                             *)
(***************************************************************************)
MAX_THREAT_HISTORY == 100
MAX_NOTIFICATIONS_PER_MINUTE == 5
MAX_ATOMIC_RETRIES == 3
VALID_THREAT_TYPES == {"video", "audio", "deepfake", "voice_clone", "synthetic"}

Handlers == 1..NumHandlers

(***************************************************************************)
(* CONFIG of the content script (unnamed/part_003).  Times are in ms,      *)
(* confidences in 1/10000.                                                 *)
(***************************************************************************)
SCAN_INTERVAL == 30000
CONFIDENCE_THRESHOLD == 7000
MAX_RETRIES == 2
REQUEST_TIMEOUT == 15000
RATE_LIMIT_WINDOW == 60000
RATE_LIMIT_MAX == 20
MAX_QUEUE_SIZE == 15
MAX_CACHED_URLS == 500
DEBOUNCE_DELAY == 300

VARIABLES
    storageMutex,    \* AsyncMutex: [locked, queue]
    sync,            \* chrome.storage.sync: key -> value, absent keys undefined
    local,           \* chrome.storage.local
    pc,              \* per handler: the await it is suspended at
    msg,             \* per handler: the message being handled
    area,            \* per handler: storage area of the running atomicIncrement
    attempt,         \* per handler: loop variable of the atomic helper
    threat,          \* per handler: the threatRecord of handleThreatDetection
    tmp,             \* per handler: newValue / newData / history held across an
                     \*   await; during a backoff, the delay of its timer
    ret,             \* per handler: value returned by atomicIncrement, 0 before
    response,        \* per handler: what sendResponse was called with
    notifications,   \* notificationLimiter.notifications
    bgNow,           \* Date.now() in the worker
    arrival,         \* history: per handler, the rank of its pending acquire() call
    arrivals,        \* history: number of acquire() calls so far
    waited,          \* history: per handler, its pending acquire() call was queued
    rejections,      \* history: storage calls rejected so far
    initial,         \* history: the counters at start
    persisted,       \* history: per handler, its writes that storage acknowledged
    notice           \* per handler: the options passed to notifications.create

bgRest == <<storageMutex, local, pc, msg, area, attempt, threat, tmp, ret, response,
            notifications, bgNow, arrival, arrivals, waited, rejections, initial,
                   persisted, notice>>

bgVars == <<sync, bgRest>>

VARIABLES
    isEnabled,        \* state.isEnabled
    hasConsent,       \* state.hasConsent
    started,          \* state.initialize() has resolved: scanner and observer exist
    dialogOpen,       \* the ConsentDialog is shown
    media,            \* the video/audio elements in document order:
                      \*   [url, scanned]  (scanned is dataset.bradleyScanned)
    scanQueue,        \* state.scanQueue: indices into media
    isScanning,       \* state.isScanning
    scannedUrls,      \* keys of state.scannedUrls in insertion order
    rateLimitCounter, \* state.rateLimitCounter
    calls,            \* apiClient.analyzeMedia calls awaiting a fetch or a backoff
    debounceAt,       \* due time of the debounce timer, -1 when not set
    noticed,          \* history of the calls of debounced(): the time of the latest
                      \*   (at, -1 when none), the time of the first of its burst
                      \*   (since) and the passes run since that burst began
    intervalAt,       \* due time of the setInterval timer, -1 when not registered
    pageNow,          \* Date.now() in the page
    waits,            \* history: times the page has waited for a timer
    rendered,         \* the indicator renders made by the latest step
    sent,             \* the runtime messages sent by the latest step
    dropped,          \* history: elements the latest pass left out, queue full
    passedOver,       \* history: elements any pass so far has left out
    issued,           \* history: times of the requests sent in the trailing window
    overlays,         \* the indicator overlays in the document: [el, cls]
    timers,           \* the pending timers of the indicators, in the order they
                      \*   were set: [kind, el, due]
    warning           \* the result the ThreatWarning in the document shows, or Null

csVars == <<isEnabled, hasConsent, started, dialogOpen, media, scanQueue, isScanning,
            scannedUrls, rateLimitCounter, calls, debounceAt, noticed, intervalAt, pageNow,
            waits, rendered, sent, dropped, passedOver, issued, overlays, timers,
            warning>>

VARIABLES
    input,            \* a result handed to ScanIndicator.showResult
    verdict           \* what showResult rendered for it

clVars == <<input, verdict>>

VARIABLES
    gwChain,          \* the URLs the gateway has requested for one submission, in order
    gwState           \* where the gateway's validation pipeline stands

gwVars == <<gwChain, gwState>>

VARIABLES
    ddUrl,            \* detectDeepfake: the mediaUrl argument
    ddType,           \* detectDeepfake: the type argument
    ddPc,             \* detectDeepfake: the await it is suspended at
    ddAttempt,        \* fetchWithRetry: the loop variable attempt
    ddDue,            \* due time of the pending timer (timeout or backoff), -1 when none
    ddNow,            \* the time
    ddRequests,       \* history: the requests sent, [at, body]
    ddResult          \* what detectDeepfake returned

ddVars == <<ddUrl, ddType, ddPc, ddAttempt, ddDue, ddNow, ddRequests, ddResult>>

vars == <<bgVars, csVars, clVars, gwVars, ddVars>>

-----------------------------------------------------------------------------
(***************************************************************************)
(* Values.                                                                 *)
(***************************************************************************)
Null == [kind |-> "null"]
NoMsg == [type |-> "none"]
NoValue == [kind |-> "undefined"]

\* chrome.storage get(keys): the stored items among keys
StorageGet(store, keys) == [k \in (DOMAIN store) \cap keys |-> store[k]]

\* chrome.storage set(items): items replace or add keys, the others stay
StorageSet(store, items) == items @@ store

\* data[key] || 0 for a counter
OrZero(data, key) == IF key \in DOMAIN data THEN data[key] ELSE 0

\* data.threatHistory || []
OrEmpty(data, key) == IF key \in DOMAIN data THEN data[key] ELSE <<>>

-----------------------------------------------------------------------------
(***************************************************************************)
(* AsyncMutex                                                              *)
(***************************************************************************)
\* acquire() that resolves at once without taking the lock
acquireUnguarded(m, h) == [mutex |-> m, granted |-> TRUE]

\* acquire() that takes the lock but never waits for it
acquireNoWait(m, h) == [mutex |-> [m EXCEPT !.locked = TRUE], granted |-> TRUE]

\* acquire(): take the free lock, or push the resolver on the queue
acquire(m, h) ==
    IF ~m.locked
    THEN [mutex |-> [m EXCEPT !.locked = TRUE], granted |-> TRUE]
    ELSE [mutex |-> [m EXCEPT !.queue = Append(@, h)], granted |-> FALSE]

\* release() that also unlocks when it hands the lock over
releaseAndUnlock(m) ==
    IF Len(m.queue) > 0
    THEN [mutex |-> [locked |-> FALSE, queue |-> Tail(m.queue)],
          next |-> Head(m.queue)]
    ELSE [mutex |-> [m EXCEPT !.locked = FALSE], next |-> 0]

\* release() that pops the newest waiter (queue.pop() for queue.shift())
releaseLast(m) ==
    IF Len(m.queue) > 0
    THEN [mutex |-> [m EXCEPT !.queue = SubSeq(@, 1, Len(@) - 1)],
          next |-> m.queue[Len(m.queue)]]
    ELSE [mutex |-> [m EXCEPT !.locked = FALSE], next |-> 0]

\* release() that shifts the queue but does not call the resolver
releaseWithoutWaking(m) ==
    IF Len(m.queue) > 0
    THEN [mutex |-> [m EXCEPT !.queue = Tail(@)], next |-> 0]
    ELSE [mutex |-> [m EXCEPT !.locked = FALSE], next |-> 0]

\* release(): hand the lock to the head of the queue (next), or unlock (next = 0)
release(m) ==
    IF Len(m.queue) > 0
    THEN [mutex |-> [m EXCEPT !.queue = Tail(@)], next |-> Head(m.queue)]
    ELSE [mutex |-> [m EXCEPT !.locked = FALSE], next |-> 0]

-----------------------------------------------------------------------------
(***************************************************************************)
(* Validation and sanitising of an incoming message.  A URL is             *)
(* [protocol, page, params]; a confidence is in 1/10000 (7000 is 0.70).    *)
(***************************************************************************)
SensitiveParams ==
    {"token", "key", "session", "auth", "password", "access_token", "api_key", "secret"}

\* a check of the sender that does not look at its URL
validateSenderTabOnly(sender) == sender.tab

\* an unparsable URL string has protocol "invalid"; a missing one is "none"
validateSender(sender) ==
    /\ sender.tab
    /\ sender.url.protocol # "none"
    /\ sender.url.protocol \in {"http:", "https:"}

\* "ok" or the message of the Error thrown.  A confidence that is NaN or an
\* infinity is a number that is not finite; the comparisons look at the
\* value only (NaN fails neither: it is given a value inside the range).
validateThreatData(data) ==
    IF ~data.isObject THEN "Invalid threat data: must be object"
    ELSE IF \/ ~data.confidenceIsNumber
            \/ ~data.confidenceIsFinite
            \/ data.confidence < 0
            \/ data.confidence > 10000
         THEN "Invalid confidence: must be number between 0 and 1"
    ELSE IF data.type # "" /\ data.type \notin VALID_THREAT_TYPES
         THEN "Invalid threat type"
    ELSE "ok"

\* new URL throws a TypeError whose message holds "Invalid URL": the catch
\* throws it again as it is, as it does the Error of the protocol test
validateUrl(url) ==
    IF url.protocol = "none" THEN "Invalid URL: must be string"
    ELSE IF url.protocol = "invalid" THEN "Invalid URL"
    ELSE IF url.protocol \notin {"http:", "https:"}
         THEN "Invalid URL protocol: must be http or https"
    ELSE "ok"

sanitizeUrl(url) ==
    IF url.protocol \in {"none", "invalid"} THEN [protocol |-> "[Invalid URL]"]
    ELSE [url EXCEPT !.params = @ \ SensitiveParams]

Min(a, b) == IF a < b THEN a ELSE b
Max(a, b) == IF a > b THEN a ELSE b

\* the exponent of a positive integer as a binary number: the e with
\* 2^e <= n < 2^(e+1)
RECURSIVE exponent(_)
exponent(n) == IF n < 2 THEN 0 ELSE 1 + exponent(n \div 2)

\* The confidence n/10000 is a double x, the nearest to n/10000, and x * 100
\* the double nearest to that product.  The product can differ from n/100
\* by less than 1/100 of a unit, so Math.round is the rounding of n/100
\* unless n/100 ends in .5.  Then, with |n| = 50 * odd and 2^a <= |x| <
\* 2^(a+1), the 53-bit significand of x is odd * 2^(49-a) / 25 rounded to
\* an integer, r being the remainder of that division; the error of x,
\* times 100, exceeds half a unit of the product's last place when
\* |x| < 1.28 * 2^a and the remainder lies beyond 8/25 of a unit.  The
\* product is then just below n/100 for a remainder of 9..12 (x rounded
\* down) and just above in magnitude for 13..16 (x rounded up):
\* 0.145 * 100 is 14.499999999999998 and -0.035 * 100 is
\* -3.5000000000000004.
roundsBelow(n) ==
    LET m == IF n < 0 THEN -n ELSE n
        a == IF m >= 10000 THEN exponent(m \div 10000)
             ELSE -(1 + exponent(9999 \div m))
        close == IF a >= 0 THEN m \div (2 ^ a) < 12800
                 ELSE m * (2 ^ (-a)) < 12800
        r == (((m \div 50) % 25) * ((2 ^ ((49 - a) % 20)) % 25)) % 25
    IN  /\ n % 100 = 50
        /\ close
        /\ IF n > 0 THEN r \in 9..12 ELSE r \in 13..16

\* Math.round(confidence * 100) in double arithmetic; Math.round takes a
\* half towards positive infinity
roundPercent(confidence) ==
    IF roundsBelow(confidence) THEN (confidence + 50) \div 100 - 1
    ELSE (confidence + 50) \div 100

\* the threatRecord built by handleThreatDetection
threatRecord(m, now) ==
    [url        |-> sanitizeUrl(m.url),
     confidence |-> Min(10000, Max(0, m.data.confidence)),
     type       |-> IF m.data.type = "" THEN "deepfake" ELSE m.data.type,
     timestamp  |-> now]

(***************************************************************************)
(* The messages the model delivers to the worker.                          *)
(***************************************************************************)
PageSender == [tab |-> TRUE, url |-> [protocol |-> "https:"]]
NoTabSender == [tab |-> FALSE, url |-> [protocol |-> "https:"]]

ScanCompleteMsg(sender) == [type |-> "SCAN_COMPLETE", sender |-> sender]

ThreatMsg(h, confidence) ==
    [type   |-> "THREAT",
     sender |-> PageSender,
     data   |-> [isObject |-> TRUE, confidenceIsNumber |-> TRUE,
                 confidenceIsFinite |-> TRUE,
                 confidence |-> confidence, type |-> "deepfake"],
     url    |-> [protocol |-> "https:", page |-> h, params |-> {"v", "token"}]]

BgMessages(h) ==
    { ScanCompleteMsg(PageSender), ScanCompleteMsg(NoTabSender),
      ThreatMsg(h, 9500), ThreatMsg(h, 15000) }

-----------------------------------------------------------------------------
(***************************************************************************)
(* The pure parts of the atomic helpers and of storeThreatHistory.         *)
(***************************************************************************)
\* atomicIncrement: newValue from the data read
incrementValue(data, key, amount) == OrZero(data, key) + amount

\* atomicUpdate as handleThreatDetection calls it: newData from the data read
threatUpdate(data, record) ==
    [threats |-> OrZero(data, "threats") + 1, lastThreat |-> record]

\* a push that never shifts
pushHistoryUnbounded(history, record) == Append(history, record)

\* a push that loses the record
pushHistoryNowhere(history, record) == history

\* storeThreatHistory: push, then shift when over MAX_THREAT_HISTORY
pushHistory(history, record) ==
    LET pushed == Append(history, record)
    IN  IF Len(pushed) > MAX_THREAT_HISTORY THEN Tail(pushed) ELSE pushed

\* NotificationRateLimiter.canSend: the pruned list
pruneNotifications(list, now) == SelectSeq(list, LAMBDA t : now - t < 60000)

canSend(list, now) == Len(pruneNotifications(list, now)) < MAX_NOTIFICATIONS_PER_MINUTE

Store(a) == IF a = "sync" THEN sync ELSE local

-----------------------------------------------------------------------------
(***************************************************************************)
(* Initial state: the worker has started, no message is being handled.     *)
(* The stores hold what an earlier run persisted: nothing (the install     *)
(* handler has not run) or the installed keys with counters that have      *)
(* counted.                                                                *)
(***************************************************************************)
InstalledSync(threats, totalScans) ==
    [enabled |-> TRUE, threats |-> threats, totalScans |-> totalScans,
     lastThreat |-> Null]

\* no handler is running
HandlersIdle ==
    /\ storageMutex = [locked |-> FALSE, queue |-> <<>>]
    /\ pc = [h \in Handlers |-> "idle"]
    /\ msg = [h \in Handlers |-> NoMsg]
    /\ area = [h \in Handlers |-> "sync"]
    /\ attempt = [h \in Handlers |-> 0]
    /\ threat = [h \in Handlers |-> NoValue]
    /\ tmp = [h \in Handlers |-> NoValue]
    /\ ret = [h \in Handlers |-> 0]
    /\ response = [h \in Handlers |-> NoValue]
    /\ arrival = [h \in Handlers |-> 0]
    /\ arrivals = 0
    /\ waited = [h \in Handlers |-> FALSE]
    /\ rejections = 0
    /\ initial = [threats |-> OrZero(sync, "threats"),
                  totalScans |-> OrZero(sync, "totalScans"),
                  enabled |-> StorageGet(sync, {"enabled"}) # [enabled |-> FALSE]]
    /\ persisted = [h \in Handlers |-> {}]
    /\ notice = [h \in Handlers |-> NoValue]

\* the worker before any message: no handler is running
WorkerIdle ==
    /\ HandlersIdle
    /\ notifications = <<>>
    /\ bgNow = 0

\* new ExtensionState(), before state.initialize() resolves
PageIdle ==
    /\ isEnabled = TRUE
    /\ hasConsent = FALSE
    /\ started = FALSE
    /\ dialogOpen = FALSE
    /\ media = <<>>
    /\ scanQueue = <<>>
    /\ isScanning = FALSE
    /\ scannedUrls = <<>>
    /\ rateLimitCounter = <<>>
    /\ calls = {}
    /\ debounceAt = -1
    /\ noticed = [at |-> -1, since |-> -1, passes |-> 0]
    /\ intervalAt = -1
    /\ pageNow = 0
    /\ waits = 0
    /\ rendered = <<>>
    /\ sent = <<>>
    /\ dropped = {}
    /\ passedOver = {}
    /\ issued = <<>>
    /\ overlays = {}
    /\ timers = <<>>
    /\ warning = Null

\* no indicator has been asked to show a result
IndicatorIdle ==
    /\ input = NoValue
    /\ verdict = NoValue

\* nothing has been submitted to the gateway
GatewayIdle ==
    /\ gwChain = <<>>
    /\ gwState = "idle"

\* detectDeepfake has not been called
DetectIdle ==
    /\ ddUrl = NoValue
    /\ ddType = "video"
    /\ ddPc = "idle"
    /\ ddAttempt = 0
    /\ ddDue = -1
    /\ ddNow = 0
    /\ ddRequests = <<>>
    /\ ddResult = NoValue

InitBackground ==
    /\ \/ sync = <<>> /\ local = <<>>
       \/ /\ \E n \in {0, MaxInitialCount} : sync = InstalledSync(n, n)
          /\ local = [threatHistory |-> <<>>]
    /\ WorkerIdle
    /\ PageIdle
    /\ IndicatorIdle
    /\ GatewayIdle
    /\ DetectIdle

Success == [success |-> TRUE]
Failure(error) == [success |-> FALSE, error |-> error]

\* pc after release() has resolved the next waiter
Grant(p, next) == IF next = 0 THEN p ELSE [p EXCEPT ![next] = "granted"]

\* h calls storageMutex.withLock(fn): acquire()
CallWithLock(h, a) ==
    LET r == acquire(storageMutex, h)
    IN  /\ storageMutex' = r.mutex
        /\ pc' = [pc EXCEPT ![h] = IF r.granted THEN "granted" ELSE "waiting"]
        /\ area' = [area EXCEPT ![h] = a]
        /\ arrivals' = arrivals + 1
        /\ arrival' = [arrival EXCEPT ![h] = arrivals + 1]
        /\ waited' = [waited EXCEPT ![h] = ~r.granted]

(***************************************************************************)
(* onMessage listener: validation, then updateScanCount or                 *)
(* handleThreatDetection up to its first await.                            *)
(***************************************************************************)
Reject(h, m, error) ==
    /\ response' = [response EXCEPT ![h] = Failure(error)]
    /\ pc' = [pc EXCEPT ![h] = "done"]
    /\ UNCHANGED <<storageMutex, area, arrival, arrivals, waited>>

\* message && typeof message.type === 'string': a message that is null or
\* has no type is a record without the field
hasType(m) == "type" \in DOMAIN m

\* GET_STATUS and GET_HISTORY: the listener calls storage get and returns
\* true; the response is sent when the read settles
AwaitRead(h, at) ==
    /\ pc' = [pc EXCEPT ![h] = at]
    /\ UNCHANGED <<storageMutex, area, arrival, arrivals, waited, response>>

\* the listener's body for message m; a type that is none of the four falls
\* through to the last sendResponse
Listener(h, m) ==
    /\ msg' = [msg EXCEPT ![h] = m]
    /\ IF ~hasType(m)
       THEN Reject(h, m, "Invalid message format") /\ UNCHANGED threat
       ELSE IF m.type = "GET_STATUS"
       THEN AwaitRead(h, "status_get") /\ UNCHANGED threat
       ELSE IF m.type = "GET_HISTORY"
       THEN AwaitRead(h, "history_get") /\ UNCHANGED threat
       ELSE IF m.type \notin {"THREAT", "SCAN_COMPLETE"}
       THEN Reject(h, m, "Unknown message type") /\ UNCHANGED threat
       ELSE IF ~validateSender(m.sender)
       THEN Reject(h, m, "Untrusted sender") /\ UNCHANGED threat
       ELSE IF m.type = "SCAN_COMPLETE"
       THEN CallWithLock(h, "sync") /\ UNCHANGED <<response, threat>>
       ELSE IF validateThreatData(m.data) # "ok"
       THEN Reject(h, m, validateThreatData(m.data)) /\ UNCHANGED threat
       ELSE IF validateUrl(m.url) # "ok"
       THEN Reject(h, m, validateUrl(m.url)) /\ UNCHANGED threat
       ELSE /\ threat' = [threat EXCEPT ![h] = threatRecord(m, bgNow)]
            /\ CallWithLock(h, "sync")
            /\ UNCHANGED response
    /\ UNCHANGED <<sync, local, attempt, tmp, ret, notifications, bgNow,
                   rejections, initial,
                   persisted, notice>>

OnMessage(h, m) ==
    /\ pc[h] = "idle"
    /\ \A g \in 1..(h - 1) : pc[g] # "idle"    \* handlers are numbered in arrival order
    /\ Listener(h, m)

\* withLock: the awaited acquire() has resolved, fn starts and awaits get
StartLocked(h) ==
    /\ pc[h] = "granted"
    /\ pc' = [pc EXCEPT ![h] = "get"]
    /\ attempt' = [attempt EXCEPT ![h] = 0]
    /\ arrival' = [arrival EXCEPT ![h] = 0]
    /\ waited' = [waited EXCEPT ![h] = FALSE]
    /\ UNCHANGED <<storageMutex, sync, local, msg, area, threat, tmp, ret, response,
                   notifications, bgNow, arrivals, rejections, initial,
                   persisted, notice>>

\* the awaited storageArea.get resolves: compute, then await set
GetResolved(h) ==
    /\ pc[h] = "get"
    /\ pc' = [pc EXCEPT ![h] = "set"]
    /\ tmp' = [tmp EXCEPT ![h] =
                 IF msg[h].type = "SCAN_COMPLETE"
                 THEN incrementValue(StorageGet(Store(area[h]), {"totalScans"}),
                                     "totalScans", 1)
                 ELSE threatUpdate(StorageGet(sync, {"threats", "lastThreat"}),
                                   threat[h])]
    /\ UNCHANGED <<storageMutex, sync, local, msg, area, attempt, threat, ret, response,
                   notifications, bgNow, arrival, arrivals, waited, rejections, initial,
                   persisted, notice>>

\* the awaited storageArea.set resolves: the helper returns, withLock's finally
\* releases, and the caller goes on to its next await
SetResolved(h) ==
    /\ pc[h] = "set"
    /\ LET r == release(storageMutex)
       IN  /\ storageMutex' = r.mutex
           /\ IF msg[h].type = "SCAN_COMPLETE"
              THEN /\ IF area[h] = "sync"
                      THEN /\ sync' = StorageSet(sync, [totalScans |-> tmp[h]])
                           /\ UNCHANGED local
                      ELSE /\ local' = StorageSet(local, [totalScans |-> tmp[h]])
                           /\ UNCHANGED sync
                   /\ ret' = [ret EXCEPT ![h] = tmp[h]]
                   /\ response' = [response EXCEPT ![h] = Success]
                   /\ pc' = [Grant(pc, r.next) EXCEPT ![h] = "done"]
              ELSE /\ sync' = StorageSet(sync, tmp[h])
                   /\ pc' = [Grant(pc, r.next) EXCEPT ![h] = "hist_get"]
                   /\ UNCHANGED <<local, ret, response>>
    /\ persisted' = [persisted EXCEPT ![h] = @ \cup {"counter"}]
    /\ UNCHANGED <<msg, area, attempt, threat, tmp, notifications, bgNow,
                   arrival, arrivals, waited, rejections, initial, notice>>

\* a backoff of 10 ms whatever the attempt
atomicBackoffFixed(n) == 10

\* the delay before the next attempt of an atomic helper: 10 * (attempt + 1)
atomicBackoff(n) == 10 * (n + 1)

\* the awaited get or set rejects: back off, or on the last attempt throw out
\* of withLock (finally releases) to the caller's catch
StorageRejected(h) ==
    /\ pc[h] \in {"get", "set"}
    /\ rejections < MaxRejections
    /\ rejections' = rejections + 1
    /\ IF attempt[h] # MAX_ATOMIC_RETRIES - 1
       THEN /\ pc' = [pc EXCEPT ![h] = "backoff"]
            /\ UNCHANGED <<storageMutex, area, response, arrival, arrivals, waited>>
       ELSE LET r == release(storageMutex)
            IN  IF msg[h].type = "SCAN_COMPLETE" /\ area[h] = "sync"
                THEN \* updateScanCount falls back to storage.local
                     LET a == acquire(r.mutex, h)
                     IN  /\ storageMutex' = a.mutex
                         /\ pc' = [Grant(pc, r.next) EXCEPT
                                     ![h] = IF a.granted THEN "granted" ELSE "waiting"]
                         /\ area' = [area EXCEPT ![h] = "local"]
                         /\ arrivals' = arrivals + 1
                         /\ arrival' = [arrival EXCEPT ![h] = arrivals + 1]
                         /\ waited' = [waited EXCEPT ![h] = ~a.granted]
                         /\ UNCHANGED response
                ELSE /\ storageMutex' = r.mutex
                     /\ pc' = [Grant(pc, r.next) EXCEPT ![h] = "done"]
                     /\ response' = [response EXCEPT ![h] =
                                       IF msg[h].type = "SCAN_COMPLETE"
                                       THEN Success
                                       ELSE Failure("storage")]
                     /\ UNCHANGED <<area, arrival, arrivals, waited>>
    /\ tmp' = IF attempt[h] # MAX_ATOMIC_RETRIES - 1
              THEN [tmp EXCEPT ![h] = atomicBackoff(attempt[h])]
              ELSE tmp
    /\ UNCHANGED <<sync, local, msg, attempt, threat, ret, notifications,
                   bgNow, initial,
                   persisted, notice>>

\* the backoff timer of the atomic helper fires, the delay held in tmp after
\* the rejection: next attempt.  The helper holds the mutex, so no other
\* timer of the worker is pending.
BackoffElapsed(h) ==
    /\ pc[h] = "backoff"
    /\ bgNow' = bgNow + tmp[h]
    /\ attempt' = [attempt EXCEPT ![h] = @ + 1]
    /\ pc' = [pc EXCEPT ![h] = "get"]
    /\ UNCHANGED <<storageMutex, sync, local, msg, area, threat, tmp, ret, response,
                   notifications, arrival, arrivals, waited, rejections, initial,
                   persisted, notice>>

(***************************************************************************)
(* storeThreatHistory, showThreatNotification and the tab warning: the     *)
(* rest of handleThreatDetection, outside the mutex.                       *)
(***************************************************************************)
\* sanitizeUrlForDisplay: hostname and pathname, the query left out
sanitizeUrlForDisplay(url) ==
    IF url.protocol \in {"none", "invalid"} THEN [protocol |-> "[Invalid URL]"]
    ELSE [page |-> url.page, params |-> {}]

\* showThreatNotification up to its await, or past it when the gate is shut
ShowThreatNotification(h) ==
    /\ notifications' = pruneNotifications(notifications, bgNow)
    /\ IF canSend(notifications, bgNow)
       THEN /\ notice' = [notice EXCEPT ![h] =
                            [confidence |-> roundPercent(Min(10000, Max(0, msg[h].data.confidence))),
                             url |-> sanitizeUrlForDisplay(msg[h].url)]]
            /\ pc' = [pc EXCEPT ![h] = "notify"]
       ELSE /\ UNCHANGED notice
            /\ pc' = [pc EXCEPT ![h] = "tab_message"]

HistoryGetResolved(h) ==
    /\ pc[h] = "hist_get"
    /\ pc' = [pc EXCEPT ![h] = "hist_set"]
    /\ tmp' = [tmp EXCEPT ![h] =
                 pushHistory(OrEmpty(StorageGet(local, {"threatHistory"}),
                                     "threatHistory"), threat[h])]
    /\ UNCHANGED <<storageMutex, sync, local, msg, area, attempt, threat, ret,
                   response, notifications, bgNow, arrival, arrivals, waited,
                   rejections, initial,
                   persisted, notice>>

HistorySetResolved(h) ==
    /\ pc[h] = "hist_set"
    /\ local' = StorageSet(local, [threatHistory |-> tmp[h]])
    /\ persisted' = [persisted EXCEPT ![h] = @ \cup {"history"}]
    /\ ShowThreatNotification(h)
    /\ UNCHANGED <<storageMutex, sync, msg, area, attempt, threat, tmp, ret,
                   response, bgNow, arrival, arrivals, waited, rejections, initial>>

\* storeThreatHistory catches and logs a storage rejection
HistoryRejected(h) ==
    /\ pc[h] \in {"hist_get", "hist_set"}
    /\ rejections < MaxRejections
    /\ rejections' = rejections + 1
    /\ ShowThreatNotification(h)
    /\ UNCHANGED <<storageMutex, sync, local, msg, area, attempt, threat, tmp, ret,
                   response, bgNow, arrival, arrivals, waited, initial, persisted>>

\* chrome.notifications.create resolves (recordSent) or rejects (caught)
NotificationSettled(h, created) ==
    /\ pc[h] = "notify"
    /\ notifications' = IF created THEN Append(notifications, bgNow)
                        ELSE notifications
    /\ pc' = [pc EXCEPT ![h] = "tab_message"]
    /\ UNCHANGED <<storageMutex, sync, local, msg, area, attempt, threat, tmp, ret,
                   response, bgNow, arrival, arrivals, waited, rejections, initial,
                   persisted, notice>>

\* chrome.tabs.sendMessage settles (a rejection is caught): the handler is done
TabMessageSettled(h) ==
    /\ pc[h] = "tab_message"
    /\ response' = [response EXCEPT ![h] = Success]
    /\ pc' = [pc EXCEPT ![h] = "done"]
    /\ UNCHANGED <<storageMutex, sync, local, msg, area, attempt, threat, tmp, ret,
                   notifications, bgNow, arrival, arrivals, waited, rejections, initial,
                   persisted, notice>>

\* GET_STATUS: the awaited chrome.storage.sync.get resolves
StatusGetResolved(h) ==
    /\ pc[h] = "status_get"
    /\ response' = [response EXCEPT ![h] =
                      [success |-> TRUE,
                       data |-> StorageGet(sync, {"enabled", "threats", "totalScans"})]]
    /\ pc' = [pc EXCEPT ![h] = "done"]
    /\ UNCHANGED <<storageMutex, sync, local, msg, area, attempt, threat, tmp, ret,
                   notifications, bgNow, arrival, arrivals, waited, rejections, initial,
                   persisted, notice>>

\* GET_HISTORY: the awaited chrome.storage.local.get resolves
HistoryReadResolved(h) ==
    /\ pc[h] = "history_get"
    /\ response' = [response EXCEPT ![h] =
                      [success |-> TRUE,
                       history |-> OrEmpty(StorageGet(local, {"threatHistory"}),
                                           "threatHistory")]]
    /\ pc' = [pc EXCEPT ![h] = "done"]
    /\ UNCHANGED <<storageMutex, sync, local, msg, area, attempt, threat, tmp, ret,
                   notifications, bgNow, arrival, arrivals, waited, rejections, initial,
                   persisted, notice>>

\* the read of GET_STATUS or GET_HISTORY rejects: the catch answers with
\* the error's message
ReadRejected(h) ==
    /\ pc[h] \in {"status_get", "history_get"}
    /\ rejections < MaxRejections
    /\ rejections' = rejections + 1
    /\ response' = [response EXCEPT ![h] = Failure("storage")]
    /\ pc' = [pc EXCEPT ![h] = "done"]
    /\ UNCHANGED <<storageMutex, sync, local, msg, area, attempt, threat, tmp, ret,
                   notifications, bgNow, arrival, arrivals, waited, initial,
                   persisted, notice>>

\* the steps of a handler while every storage call succeeds
Handle(h) ==
    \/ StartLocked(h)
    \/ GetResolved(h)
    \/ SetResolved(h)
    \/ HistoryGetResolved(h)
    \/ HistorySetResolved(h)
    \/ \E created \in BOOLEAN : NotificationSettled(h, created)
    \/ TabMessageSettled(h)

\* the worker with a storage backend that rejects no call
NextBackground ==
    /\ \E h \in Handlers :
        \/ \E m \in BgMessages(h) : OnMessage(h, m)
        \/ Handle(h)
    /\ UNCHANGED <<csVars, clVars, gwVars, ddVars>>

SpecBackground == InitBackground /\ [][NextBackground]_vars

\* the worker with a storage backend that may reject calls
NextFaulty ==
    /\ \E h \in 1..FaultyHandlers :
        \/ \E m \in BgMessages(h) : OnMessage(h, m)
        \/ Handle(h)
        \/ StorageRejected(h)
        \/ BackoffElapsed(h)
        \/ HistoryRejected(h)
    /\ UNCHANGED <<csVars, clVars, gwVars, ddVars>>

SpecFaulty == InitBackground /\ [][NextFaulty]_vars

(***************************************************************************)
(* The onInstalled listener.  It runs as one more handler of the worker:   *)
(* it takes no lock, writes the installed keys to storage.sync, then the   *)
(* empty history to storage.local; a rejection of either write is caught   *)
(* and logged.                                                             *)
(***************************************************************************)
InstalledEvent == [type |-> "INSTALLED"]

OnInstalled(h) ==
    /\ pc[h] = "idle"
    /\ \A g \in 1..(h - 1) : pc[g] # "idle"
    /\ msg' = [msg EXCEPT ![h] = InstalledEvent]
    /\ pc' = [pc EXCEPT ![h] = "install_sync"]
    /\ UNCHANGED <<storageMutex, sync, local, area, attempt, threat, tmp, ret,
                   response, notifications, bgNow, arrival, arrivals, waited,
                   rejections, initial,
                   persisted, notice>>

\* the awaited chrome.storage.sync.set resolves
InstallSyncSet(h) ==
    /\ pc[h] = "install_sync"
    /\ sync' = StorageSet(sync, InstalledSync(0, 0))
    /\ pc' = [pc EXCEPT ![h] = "install_local"]
    /\ UNCHANGED <<storageMutex, local, msg, area, attempt, threat, tmp, ret,
                   response, notifications, bgNow, arrival, arrivals, waited,
                   rejections, initial,
                   persisted, notice>>

\* the awaited chrome.storage.local.set resolves
InstallLocalSet(h) ==
    /\ pc[h] = "install_local"
    /\ local' = StorageSet(local, [threatHistory |-> <<>>])
    /\ pc' = [pc EXCEPT ![h] = "done"]
    /\ UNCHANGED <<storageMutex, sync, msg, area, attempt, threat, tmp, ret,
                   response, notifications, bgNow, arrival, arrivals, waited,
                   rejections, initial,
                   persisted, notice>>

\* either write rejects: the listener's catch logs it
InstallRejected(h) ==
    /\ pc[h] \in {"install_sync", "install_local"}
    /\ rejections < MaxRejections
    /\ rejections' = rejections + 1
    /\ pc' = [pc EXCEPT ![h] = "done"]
    /\ UNCHANGED <<storageMutex, sync, local, msg, area, attempt, threat, tmp, ret,
                   response, notifications, bgNow, arrival, arrivals, waited,
                   initial,
                   persisted, notice>>

\* the worker over its life: messages, the install event, a storage backend
\* that may reject calls
NextLifecycle ==
    /\ \E h \in 1..FaultyHandlers :
        \/ \E m \in {ScanCompleteMsg(PageSender), ThreatMsg(h, 9500)} : OnMessage(h, m)
        \/ Handle(h)
        \/ StorageRejected(h)
        \/ BackoffElapsed(h)
        \/ HistoryRejected(h)
        \/ OnInstalled(h)
        \/ InstallSyncSet(h)
        \/ InstallLocalSet(h)
        \/ InstallRejected(h)
    /\ UNCHANGED <<csVars, clVars, gwVars, ddVars>>

SpecLifecycle == InitBackground /\ [][NextLifecycle]_vars

(***************************************************************************)
(* Toggling the protection: the toolbar button (action.onClicked in the    *)
(* worker) and the popup's toggle button.  Both read enabled from          *)
(* storage.sync, write its negation, and then refresh what they show (the  *)
(* badges of all tabs, the popup's status).  Neither takes the mutex.      *)
(***************************************************************************)
ClickedEvent == [type |-> "CLICKED"]
PopupToggleEvent == [type |-> "POPUP_TOGGLE"]

ToggleEvents == {ClickedEvent, PopupToggleEvent}

\* !data.enabled
negated(data) == IF "enabled" \in DOMAIN data THEN ~data.enabled ELSE TRUE

\* the listener runs up to its storage.sync.get
OnToggle(h, event) ==
    /\ pc[h] = "idle"
    /\ \A g \in 1..(h - 1) : pc[g] # "idle"
    /\ msg' = [msg EXCEPT ![h] = event]
    /\ pc' = [pc EXCEPT ![h] = "toggle_get"]
    /\ UNCHANGED <<storageMutex, sync, local, area, attempt, threat, tmp, ret,
                   response, notifications, bgNow, arrival, arrivals, waited,
                   rejections, initial, persisted, notice>>

\* the get resolves: newState is computed and set is called
ToggleGetResolved(h) ==
    /\ pc[h] = "toggle_get"
    /\ tmp' = [tmp EXCEPT ![h] = negated(StorageGet(sync, {"enabled"}))]
    /\ pc' = [pc EXCEPT ![h] = "toggle_set"]
    /\ UNCHANGED <<storageMutex, sync, local, msg, area, attempt, threat, ret,
                   response, notifications, bgNow, arrival, arrivals, waited,
                   rejections, initial, persisted, notice>>

\* the set resolves: updateBadgeForAllTabs(newState) or loadStatus() starts
ToggleSetResolved(h) ==
    /\ pc[h] = "toggle_set"
    /\ sync' = StorageSet(sync, [enabled |-> tmp[h]])
    /\ pc' = [pc EXCEPT ![h] = "toggle_shown"]
    /\ UNCHANGED <<storageMutex, local, msg, area, attempt, threat, tmp, ret,
                   response, notifications, bgNow, arrival, arrivals, waited,
                   rejections, initial, persisted, notice>>

\* the badges or the popup's status have been refreshed
ToggleShown(h) ==
    /\ pc[h] = "toggle_shown"
    /\ pc' = [pc EXCEPT ![h] = "done"]
    /\ UNCHANGED <<storageMutex, sync, local, msg, area, attempt, threat, tmp, ret,
                   response, notifications, bgNow, arrival, arrivals, waited,
                   rejections, initial, persisted, notice>>

(***************************************************************************)
(* The popup's handleToggle: it reads enabled, asks the worker to store    *)
(* the new state with a SET_ENABLED message, and reloads its status when   *)
(* the response reports success, or shows an error when it does not.  The  *)
(* popup is an extension page: its sender has no tab.                      *)
(***************************************************************************)
HandleToggleEvent == [type |-> "HANDLE_TOGGLE"]

PopupSender == [tab |-> FALSE, url |-> [protocol |-> "chrome-extension:"]]

SetEnabledMsg(enabled) ==
    [type |-> "SET_ENABLED", enabled |-> enabled, sender |-> PopupSender]

\* data.enabled === false
isFalse(data) == "enabled" \in DOMAIN data /\ data.enabled = FALSE

\* the click: handleToggle runs up to its storage.sync.get
HandleToggle(h) ==
    /\ pc[h] = "idle"
    /\ \A g \in 1..(h - 1) : pc[g] # "idle"
    /\ msg' = [msg EXCEPT ![h] = HandleToggleEvent]
    /\ pc' = [pc EXCEPT ![h] = "popup_get"]
    /\ UNCHANGED <<storageMutex, sync, local, area, attempt, threat, tmp, ret,
                   response, notifications, bgNow, arrival, arrivals, waited,
                   rejections, initial, persisted, notice>>

\* the get resolves: newState is computed and the message is sent
PopupGetResolved(h) ==
    /\ pc[h] = "popup_get"
    /\ msg' = [msg EXCEPT ![h] = SetEnabledMsg(isFalse(StorageGet(sync, {"enabled"})))]
    /\ pc' = [pc EXCEPT ![h] = "popup_sent"]
    /\ UNCHANGED <<storageMutex, sync, local, area, attempt, threat, tmp, ret,
                   response, notifications, bgNow, arrival, arrivals, waited,
                   rejections, initial, persisted, notice>>

\* the message in flight reaches the worker: its onMessage listener runs on
\* it and answers
SetEnabledReceived(h) ==
    /\ pc[h] = "popup_sent"
    /\ Listener(h, msg[h])

\* the response has arrived: loadStatus(), or the throw to the catch and
\* showError
PopupReplied(h) ==
    /\ pc[h] = "done"
    /\ msg[h].type = "SET_ENABLED"
    /\ notice[h] = NoValue
    /\ notice' = [notice EXCEPT ![h] =
                    IF response[h].success
                    THEN [status |-> StorageGet(sync, {"enabled"})]
                    ELSE [error |-> "Failed to toggle protection"]]
    /\ UNCHANGED <<storageMutex, sync, local, msg, area, attempt, threat, tmp, ret,
                   response, notifications, bgNow, arrival, arrivals, waited,
                   rejections, initial, persisted, pc>>

PopupToggle(h) ==
    \/ HandleToggle(h)
    \/ PopupGetResolved(h)
    \/ SetEnabledReceived(h)
    \/ PopupReplied(h)

Toggle(h) ==
    \/ \E event \in ToggleEvents : OnToggle(h, event)
    \/ ToggleGetResolved(h)
    \/ ToggleSetResolved(h)
    \/ ToggleShown(h)

\* an installed extension, the protection on or off, with counters that
\* have or have not counted
InitToggle ==
    /\ \E n \in {0, MaxInitialCount} : \E enabled \in BOOLEAN :
          sync = StorageSet(InstalledSync(n, n), [enabled |-> enabled])
    /\ local = [threatHistory |-> <<>>]
    /\ WorkerIdle
    /\ PageIdle
    /\ IndicatorIdle
    /\ GatewayIdle
    /\ DetectIdle

\* toggles and SCAN_COMPLETE messages
NextToggle ==
    /\ \E h \in 1..ToggleHandlers :
        \/ Toggle(h)
        \/ PopupToggle(h)
        \/ OnMessage(h, ScanCompleteMsg(PageSender))
        \/ StartLocked(h)
        \/ GetResolved(h)
        \/ SetResolved(h)
    /\ UNCHANGED <<csVars, clVars, gwVars, ddVars>>

SpecToggle == InitToggle /\ [][NextToggle]_vars

(***************************************************************************)
(* A worker that has run for a while: the history holds the records of     *)
(* earlier threats and the limiter the times of earlier notifications.     *)
(***************************************************************************)
EarlierRecord(i) ==
    [url        |-> [protocol |-> "https:", page |-> 0, params |-> {"v"}],
     confidence |-> 9500,
     type       |-> "deepfake",
     timestamp  |-> i]

EarlierHistory(n) == [i \in 1..n |-> EarlierRecord(i)]

EarlierNotifications(n) == [i \in 1..n |-> 100 * i]

InitWorker ==
    /\ sync = InstalledSync(0, 0)
    /\ \E n \in {0, MAX_THREAT_HISTORY - 1, MAX_THREAT_HISTORY} :
          local = [threatHistory |-> EarlierHistory(n)]
    /\ HandlersIdle
    /\ \E n \in {0, MAX_NOTIFICATIONS_PER_MINUTE - 1, MAX_NOTIFICATIONS_PER_MINUTE} :
          notifications = EarlierNotifications(n)
    /\ bgNow = 1000
    /\ PageIdle
    /\ IndicatorIdle
    /\ GatewayIdle
    /\ DetectIdle

NextWorker ==
    /\ \E h \in 1..WorkerHandlers :
        \/ \E m \in BgMessages(h) : OnMessage(h, m)
        \/ Handle(h)
    /\ UNCHANGED <<csVars, clVars, gwVars, ddVars>>

SpecWorker == InitWorker /\ [][NextWorker]_vars

(***************************************************************************)
(* A worker that receives, next to well-formed messages from a page, the   *)
(* messages no content script of the extension sends: from a sender        *)
(* without a tab, without a URL or with a URL of another scheme, and       *)
(* THREAT messages with malformed data or a URL that is none; the popup's   *)
(* GET_STATUS and GET_HISTORY requests, whose reads may be rejected, and    *)
(* messages that are null or have no type.                                 *)
(***************************************************************************)
IntakeHandlers == 2

Sender(tab, protocol) == [tab |-> tab, url |-> [protocol |-> protocol]]

IntakeSenders ==
    {PageSender, NoTabSender, Sender(TRUE, "none"), Sender(TRUE, "chrome-extension:")}

ThreatData(isObject, isNumber, isFinite, confidence, type) ==
    [isObject |-> isObject, confidenceIsNumber |-> isNumber,
     confidenceIsFinite |-> isFinite, confidence |-> confidence, type |-> type]

\* data: well-formed without a type and at the end of the range, null, a
\* string for a confidence, NaN, Infinity, below 0, above 1, a type not allowed
IntakeData ==
    {ThreatData(TRUE, TRUE, TRUE, 10000, ""),
     ThreatData(FALSE, FALSE, FALSE, 0, ""),
     ThreatData(TRUE, FALSE, FALSE, 9500, "deepfake"),
     ThreatData(TRUE, TRUE, FALSE, 5000, "deepfake"),
     ThreatData(TRUE, TRUE, FALSE, 10001, "deepfake"),
     ThreatData(TRUE, TRUE, TRUE, -1, "deepfake"),
     ThreatData(TRUE, TRUE, TRUE, 10001, "deepfake"),
     ThreatData(TRUE, TRUE, TRUE, 9500, "malware")}

IntakeUrls(h) ==
    {[protocol |-> q, page |-> h, params |-> {"v"}] :
        q \in {"none", "invalid", "ftp:"}}

\* the popup's requests for the status and the history
GetStatusMsg == [type |-> "GET_STATUS", sender |-> PopupSender]
GetHistoryMsg == [type |-> "GET_HISTORY", sender |-> PopupSender]

\* a message that is an object without a type
Untyped == [sender |-> PageSender]

IntakeMessages(h) ==
    {ScanCompleteMsg(s) : s \in IntakeSenders}
    \cup {[ThreatMsg(h, 9500) EXCEPT !.sender = s] : s \in IntakeSenders}
    \cup {[ThreatMsg(h, 9500) EXCEPT !.data = d] : d \in IntakeData}
    \cup {[ThreatMsg(h, 9500) EXCEPT !.url = u] : u \in IntakeUrls(h)}

NextIntake ==
    /\ \E h \in 1..IntakeHandlers :
        \/ \E m \in IntakeMessages(h) : OnMessage(h, m)
        \/ \E m \in {GetStatusMsg, GetHistoryMsg, Untyped, Null} : OnMessage(h, m)
        \/ Handle(h)
        \/ StatusGetResolved(h)
        \/ HistoryReadResolved(h)
        \/ ReadRejected(h)
    /\ UNCHANGED <<csVars, clVars, gwVars, ddVars>>

SpecIntake == InitBackground /\ [][NextIntake]_vars

-----------------------------------------------------------------------------
(***************************************************************************)
(* Properties of the background worker.                                    *)
(***************************************************************************)
AllHandled == \A h \in Handlers : pc[h] = "done"

\* the handlers whose message passed validation
ScanHandlers ==
    {h \in Handlers : msg[h].type = "SCAN_COMPLETE" /\ response[h] # Failure("Untrusted sender")}
ThreatHandlers == {h \in Handlers : msg[h].type = "THREAT" /\ threat[h] # NoValue}

\* a handler that holds the mutex: between the resolution of its acquire()
\* and the release() in withLock's finally
Holds(h) == pc[h] \in {"granted", "get", "set", "backoff"}
InCriticalSection(h) == pc[h] \in {"get", "set", "backoff"}

\* C1: N concurrent atomicIncrement(sync, 'totalScans', 1) calls, no storage
\* failure: once all have completed the stored value is the initial value plus
\* N and the values returned are initial+1 .. initial+N, each exactly once.
C1_NoLostIncrement ==
    AllHandled =>
        LET n == Cardinality(ScanHandlers)
        IN  /\ OrZero(sync, "totalScans") = initial.totalScans + n
            /\ {ret[h] : h \in ScanHandlers} =
                   (initial.totalScans + 1)..(initial.totalScans + n)

C1_Witness ==
    /\ AllHandled
    /\ ScanHandlers = Handlers
    /\ initial.totalScans = MaxInitialCount
    /\ OrZero(sync, "totalScans") = MaxInitialCount + NumHandlers

\* C2: mutual exclusion: at most one function passed to withLock is between
\* its start and its completion, while it awaits a storage call or the timer
\* of a backoff included; the mutex is locked while it is, and no other
\* caller has been granted the lock before release() was called for it.
C2_MutualExclusion ==
    /\ Cardinality({h \in Handlers : Holds(h)}) <= 1
    /\ (\E h \in Handlers : Holds(h)) => storageMutex.locked

\* a handler waits for the timer of its last backoff, after two rejected
\* attempts, while another waits for the lock
C2_Witness ==
    \E h, g \in Handlers :
        /\ pc[h] = "backoff"
        /\ attempt[h] = MAX_ATOMIC_RETRIES - 2
        /\ pc[g] = "waiting"
        /\ Len(storageMutex.queue) = 1

\* C3: FIFO granting: a caller is granted the lock only when no caller that
\* called acquire() before it is still waiting; in particular a caller that
\* arrives after a release is never granted the lock past a waiting caller.
C3_FifoGranting ==
    [][\A a \in Handlers :
          (pc[a] # "granted" /\ pc'[a] = "granted") =>
              \A b \in Handlers \ {a} :
                  pc[b] = "waiting" => arrival[b] > arrival'[a]]_vars

C3_Witness ==
    \E a, b \in Handlers :
        /\ pc[a] = "granted" /\ waited[a]
        /\ pc[b] = "waiting"
        /\ arrival[a] < arrival[b]

\* C4: atomicUpdate is indivisible: while a handler is between the batch read
\* and the batch write of its atomicUpdate no other atomicIncrement or
\* atomicUpdate reads or writes a store, and threats and lastThreat change
\* only together, in the one write of one atomicUpdate, to its newData.
C4_AtomicUpdateIndivisible ==
    [][/\ \A h \in ThreatHandlers :
             pc[h] = "set" =>
                 \A g \in Handlers \ {h} :
                     ~(pc[g] \in {"get", "set"} /\ pc'[g] # pc[g])
       /\ (\/ StorageGet(sync', {"threats"}) # StorageGet(sync, {"threats"})
           \/ StorageGet(sync', {"lastThreat"}) # StorageGet(sync, {"lastThreat"}))
          => \E h \in ThreatHandlers :
                 /\ pc[h] = "set" /\ pc'[h] # "set"
                 /\ StorageGet(sync', {"threats", "lastThreat"}) =
                        [threats |-> OrZero(sync, "threats") + 1,
                         lastThreat |-> threat[h]]]_vars

C4_Witness ==
    \E h, g \in ThreatHandlers :
        /\ h # g
        /\ pc[g] = "set"
        /\ StorageGet(sync, {"threats", "lastThreat"}) =
               [threats |-> initial.threats + 1, lastThreat |-> threat[h]]

\* C5: k valid THREAT messages handled concurrently, history initially empty,
\* no storage failure: after all handlers finish the threats counter has
\* increased by exactly k and threatHistory holds exactly k records, one per
\* message.
C5_NoLostThreat ==
    AllHandled =>
        LET history == OrEmpty(local, "threatHistory")
        IN  /\ OrZero(sync, "threats") = initial.threats + Cardinality(ThreatHandlers)
            /\ Len(history) = Cardinality(ThreatHandlers)
            /\ {history[i] : i \in 1..Len(history)} = {threat[h] : h \in ThreatHandlers}


\* the position of h's record in the stored history, 0 when it is not there
Recorded(h) ==
    LET history == OrEmpty(local, "threatHistory")
        at == {i \in 1..Len(history) : history[i] = threat[h]}
    IN  IF at = {} THEN 0 ELSE CHOOSE i \in at : TRUE

\* C32: the side effects of the THREAT messages of one scanning session are
\* applied in the order the messages were sent (handlers are numbered in
\* that order): of two such messages the earlier one's counter increment is
\* written first, and once both are handled the earlier one's record
\* precedes the later one's in threatHistory.
C32_OrderedSideEffects ==
    \A a, b \in ThreatHandlers :
        a < b =>
            /\ "counter" \in persisted[b] => "counter" \in persisted[a]
            /\ (pc[a] = "done" /\ pc[b] = "done") =>
                   /\ Recorded(a) > 0
                   /\ Recorded(a) < Recorded(b)

\* a sender that is not a tab showing an http or https page
Untrusted(m) ==
    /\ m.type \in {"THREAT", "SCAN_COMPLETE"}
    /\ ~m.sender.tab \/ m.sender.url.protocol \notin {"http:", "https:"}

\* THREAT content that is not a finite confidence in [0,1] with an allowed
\* type (or none) and an http or https URL
Malformed(m) ==
    /\ m.type = "THREAT"
    /\ \/ ~m.data.isObject
       \/ ~m.data.confidenceIsNumber
       \/ ~m.data.confidenceIsFinite
       \/ m.data.confidence < 0
       \/ m.data.confidence > 10000
       \/ m.data.type \notin {"", "video", "audio", "deepfake", "voice_clone", "synthetic"}
       \/ m.url.protocol \notin {"http:", "https:"}

Refused(m) == m # NoMsg /\ hasType(m) /\ (Untrusted(m) \/ Malformed(m))

\* C33: a THREAT or SCAN_COMPLETE message from an untrusted sender, and a
\* THREAT message with an invalid confidence, type or url, is answered
\* success:false in the step that receives it; that step changes neither
\* store, the limiter nor the mutex, its handler writes nothing and creates no
\* notification, and every change of a store or of the limiter is a step of
\* a handler whose message is none of these.
C33_InvalidInputInert ==
    /\ [](\A h \in Handlers :
            Refused(msg[h]) =>
                /\ pc[h] = "done"
                /\ response[h] # NoValue
                /\ response[h] # Success
                /\ ~response[h].success
                /\ persisted[h] = {}
                /\ notice[h] = NoValue
                /\ threat[h] = NoValue)
    /\ [][\A h \in Handlers :
            (msg[h] = NoMsg /\ Refused(msg'[h])) =>
                (/\ sync' = sync
                 /\ local' = local
                 /\ notifications' = notifications
                 /\ storageMutex' = storageMutex)]_vars
    /\ [][(sync' # sync \/ local' # local \/ notifications' # notifications) =>
             (\E g \in Handlers :
                 /\ msg[g] # NoMsg
                 /\ ~Refused(msg[g])
                 /\ pc'[g] # pc[g])]_vars

\* a malformed THREAT from a page and a message from an untrusted sender
\* have been refused while the stores hold what a valid THREAT wrote
C33_Witness ==
    \E h, g \in Handlers :
        /\ h # g
        /\ Refused(msg[h]) /\ pc[h] = "done"
        /\ hasType(msg[g]) /\ msg[g].type = "THREAT" /\ ~Refused(msg[g])
        /\ persisted[g] = {"counter", "history"}

\* C11: threatHistory never holds more than MAX_THREAT_HISTORY (100)
\* records; an append computes, from the history it read, that history
\* without its oldest record when it held 100 and whole otherwise, followed
\* by the new record, and writes exactly that.
C11_HistoryBounded ==
    /\ [](Len(OrEmpty(local, "threatHistory")) <= 100)
    /\ [][\A h \in Handlers :
            /\ pc[h] = "hist_get" /\ pc'[h] = "hist_set" =>
                  LET read == OrEmpty(local, "threatHistory")
                  IN  /\ Len(read) = 100 =>
                            tmp'[h] = SubSeq(read, 2, 100) \o <<threat[h]>>
                      /\ Len(read) < 100 => tmp'[h] = read \o <<threat[h]>>
            /\ pc[h] = "hist_set" /\ pc'[h] # "hist_set" =>
                  OrEmpty(local', "threatHistory") = tmp[h]
         ]_vars

\* a record was appended to a history of 100: the oldest one is gone
C11_Witness ==
    LET history == OrEmpty(local, "threatHistory")
    IN  /\ Len(history) = 100
        /\ history[1] = EarlierRecord(2)
        /\ history[99] = EarlierRecord(100)
        /\ \E h \in Handlers : history[100] = threat[h]

\* C15: a handler answers success:true only when storage acknowledged its
\* writes: for SCAN_COMPLETE the write of the incremented totalScans, for
\* THREAT the write of threats and lastThreat and the write of the history
\* with the record appended.
C15_NoSuccessAfterFailure ==
    \A h \in Handlers :
        response[h] = Success =>
            /\ msg[h].type = "SCAN_COMPLETE" => "counter" \in persisted[h]
            /\ msg[h].type = "THREAT" => persisted[h] = {"counter", "history"}

\* the handlers whose atomic helper had its write acknowledged
Written(type) ==
    {h \in Handlers : msg[h].type = type /\ "counter" \in persisted[h]}

\* C27: the atomic helpers retry inside the critical section.  A helper
\* that is reading, writing or backing off holds the mutex and no other
\* handler does; it backs off only after attempt 0 or 1, for 10 ms times the
\* number of the failed attempt, and makes 3 attempts at most; the counters
\* are the initial values plus 1 for each helper whose write was
\* acknowledged; when the third attempt is rejected the stores are left as
\* they were, the helper leaves the critical section without a further
\* attempt and the caller has the error: a THREAT handler answers with it,
\* updateScanCount falls back to storage.local or gives up.
C27_AtomicRetry ==
    /\ [](\A h \in Handlers :
            /\ attempt[h] <= 2
            /\ pc[h] \in {"get", "set", "backoff"} =>
                  /\ storageMutex.locked
                  /\ \A k \in 1..Len(storageMutex.queue) : storageMutex.queue[k] # h
                  /\ \A g \in Handlers \ {h} :
                        pc[g] \notin {"granted", "get", "set", "backoff"}
            /\ pc[h] = "backoff" =>
                  attempt[h] < 2 /\ tmp[h] = 10 * (attempt[h] + 1))
    /\ [](/\ OrZero(sync, "threats") =
                initial.threats + Cardinality(Written("THREAT"))
          /\ OrZero(sync, "totalScans") + OrZero(local, "totalScans") =
                initial.totalScans + Cardinality(Written("SCAN_COMPLETE")))
    /\ [][\A h \in Handlers :
            (/\ pc[h] \in {"get", "set"}
             /\ attempt[h] = 2
             /\ pc'[h] # pc[h]
             /\ rejections' = rejections + 1)
            => /\ sync' = sync /\ local' = local
               /\ attempt'[h] = 2
               /\ pc'[h] \in {"granted", "waiting", "done"}
               /\ persisted'[h] = persisted[h]
               /\ msg[h].type = "THREAT" =>
                     pc'[h] = "done" /\ response'[h] = Failure("storage")
               /\ (msg[h].type = "SCAN_COMPLETE" /\ area[h] = "sync") =>
                     pc'[h] \in {"granted", "waiting"} /\ area'[h] = "local"
               /\ (msg[h].type = "SCAN_COMPLETE" /\ area[h] = "local") =>
                     pc'[h] = "done"
         ]_vars

\* one THREAT handler had all three attempts rejected and answered with the
\* error; another's update was written: threats is one more than at start
C27_Witness ==
    \E h, g \in Handlers :
        /\ msg[h].type = "THREAT" /\ msg[g].type = "THREAT"
        /\ pc[h] = "done" /\ response[h] = Failure("storage")
        /\ attempt[h] = 2
        /\ "counter" \in persisted[g]
        /\ OrZero(sync, "threats") = initial.threats + 1

(***************************************************************************)
(* Handlers contending for the mutex while storage may reject calls.  The  *)
(* event loop runs every continuation that is ready: a storage call that   *)
(* is pending settles, a timer that is set fires.                          *)
(***************************************************************************)
ContentionHandlers == 2

\* the next continuation of handler h
Settle(h) ==
    /\ \/ Handle(h)
       \/ StorageRejected(h)
       \/ BackoffElapsed(h)
       \/ HistoryRejected(h)
    /\ UNCHANGED <<csVars, clVars, gwVars, ddVars>>

NextContention ==
    \E h \in 1..ContentionHandlers :
        \/ /\ \E m \in {ScanCompleteMsg(PageSender)}
                         \cup (IF h = 1 THEN {ThreatMsg(h, 9500)} ELSE {}) :
                 OnMessage(h, m)
           /\ UNCHANGED <<csVars, clVars, gwVars, ddVars>>
        \/ Settle(h)

\* every continuation moves its handler on, so it is a step that changes pc
SpecContention ==
    /\ InitBackground
    /\ [][NextContention]_vars
    /\ \A h \in 1..ContentionHandlers : WF_pc(Settle(h))

\* C28: starvation freedom, error path included.  A caller waiting in
\* acquire() is eventually granted the lock; the rejection of a helper's
\* third attempt hands the lock to the head of the queue in that step; the
\* mutex is locked only while some caller holds it, and callers wait only
\* while it is locked.
C28_StarvationFreedom ==
    /\ \A h \in Handlers : (pc[h] = "waiting") ~> (pc[h] = "granted")
    /\ [][\A h \in Handlers :
            (/\ pc[h] \in {"get", "set"}
             /\ attempt[h] = 2
             /\ pc'[h] # pc[h]
             /\ rejections' = rejections + 1
             /\ Len(storageMutex.queue) > 0)
            => pc'[storageMutex.queue[1]] = "granted"
         ]_vars
    /\ [](storageMutex.locked =>
            \E h \in Handlers : pc[h] \in {"granted", "get", "set", "backoff"})
    /\ [](Len(storageMutex.queue) > 0 => storageMutex.locked)

\* a THREAT handler's atomicUpdate threw after its third attempt, and the
\* handler that was waiting behind it has been granted the lock
C28_Witness ==
    \E h, g \in Handlers :
        /\ msg[h].type = "THREAT"
        /\ pc[h] = "done" /\ response[h] = Failure("storage")
        /\ pc[g] = "granted" /\ waited[g]

\* the handlers that are toggles
Toggles == {h \in Handlers : msg[h] \in ToggleEvents}

\* C17: two toggles under way at once each negate the value the other left:
\* when both have completed enabled is what it was at the start.
C17_TogglesCompose ==
    (Cardinality(Toggles) = 2 /\ \A h \in Toggles : pc[h] = "done") =>
        StorageGet(sync, {"enabled"}) = [enabled |-> initial.enabled]

\* C18: at most MAX_NOTIFICATIONS_PER_MINUTE (5) notifications have been
\* created in the 60 seconds up to now, however the handlers of THREAT
\* messages interleave.
C18_NotificationGate ==
    Len(pruneNotifications(notifications, bgNow)) <= 5

\* C19: every valid THREAT message is booked whatever becomes of its
\* notification: the write of its atomicUpdate raises threats by 1 and makes
\* its record lastThreat, the write of storeThreatHistory leaves its record
\* last in threatHistory, and both writes have been made by the time the
\* gate is consulted, so a handler whose notification was suppressed, failed
\* or was created has made them.
C19_BookkeepingRegardless ==
    /\ [](\A h \in ThreatHandlers :
            pc[h] \in {"notify", "tab_message", "done"} =>
                persisted[h] = {"counter", "history"})
    /\ [][\A h \in ThreatHandlers :
            /\ pc[h] = "set" /\ pc'[h] # "set" =>
                  StorageGet(sync', {"threats", "lastThreat"}) =
                      [threats |-> OrZero(sync, "threats") + 1, lastThreat |-> threat[h]]
            /\ pc[h] = "hist_set" /\ pc'[h] # "hist_set" =>
                  LET history == OrEmpty(local', "threatHistory")
                  IN  Len(history) > 0 /\ history[Len(history)] = threat[h]
         ]_vars

\* the gate was at capacity: a handler is done, no notification was made
\* for it, and its record is lastThreat and last in the history
C19_Witness ==
    \E h \in ThreatHandlers :
        /\ pc[h] = "done"
        /\ notice[h] = NoValue
        /\ Len(notifications) = MAX_NOTIFICATIONS_PER_MINUTE
        /\ sync.lastThreat = threat[h]
        /\ sync.threats = initial.threats + 1
        /\ LET history == OrEmpty(local, "threatHistory")
           IN  Len(history) > 0 /\ history[Len(history)] = threat[h]

\* C13: threats and totalScans never decrease in a step other than the
\* install listener's write; they change only in that write, in the write
\* of a THREAT handler's atomicUpdate, which raises threats by exactly 1,
\* and in the write of a SCAN_COMPLETE handler's atomicIncrement, which
\* raises totalScans (in sync, or in local after the fallback) by exactly 1,
\* once per message at most.
C13_CountersMonotonic ==
    [][LET t  == OrZero(sync, "threats")
           t2 == OrZero(sync', "threats")
           n  == OrZero(sync, "totalScans")
           n2 == OrZero(sync', "totalScans")
           l  == OrZero(local, "totalScans")
           l2 == OrZero(local', "totalScans")
           reset == \E g \in Handlers :
                       pc[g] = "install_sync" /\ pc'[g] = "install_local"
           counts(h, type) == /\ msg[h].type = type
                              /\ pc[h] = "set" /\ pc'[h] # "set"
                              /\ rejections' = rejections
       IN  /\ ~reset => t2 >= t /\ n2 >= n
           /\ l2 >= l
           /\ \A h \in Handlers :
                 /\ counts(h, "THREAT") =>
                       /\ t2 = t + 1
                       /\ n2 = n /\ l2 = l
                 /\ counts(h, "SCAN_COMPLETE") =>
                       /\ n2 + l2 = n + l + 1
                       /\ t2 = t
                       /\ ret[h] = 0 /\ ret'[h] # 0 /\ pc'[h] = "done"
           /\ t2 # t => reset \/ \E h \in Handlers : counts(h, "THREAT")
           /\ (n2 # n \/ l2 # l) =>
                  reset \/ \E h \in Handlers : counts(h, "SCAN_COMPLETE")
      ]_vars

-----------------------------------------------------------------------------
(***************************************************************************)
(* The content script (unnamed/part_003).                                  *)
(*                                                                         *)
(* A step is one macrotask of the page: a timer callback, the settling of  *)
(* a fetch, a click in the consent dialog, a change of the document.  The  *)
(* microtasks it queues run within the step.  scannedUrls keeps the keys   *)
(* of the Map only: the stored times are never read.                       *)
(***************************************************************************)
\* A URL is its protocol, its hostname as the labels between the dots
\* ("media.example" is <<"media", "example">>), a page and its parameters.
MediaUrl(id) ==
    [protocol |-> "https:", host |-> <<"media", "example">>, page |-> id, params |-> {}]
InsecureUrl(id) ==
    [protocol |-> "http:", host |-> <<"media", "example">>, page |-> id, params |-> {}]
BlobUrl == [protocol |-> "blob:", host |-> <<>>, page |-> 0, params |-> {}]
\* a source with an ordinary and a sensitive query parameter
SignedUrl(id) == [MediaUrl(id) EXCEPT !.params = {"v", "token"}]

Element(tag, url) == [tag |-> tag, url |-> url, scanned |-> ""]

\* responses of the detection endpoint
Detection(isDeepfake, confidence) ==
    [status |-> 200, body |-> [is_deepfake |-> isDeepfake, confidence |-> confidence]]
\* a body that is no JSON text: response.json() rejects with a SyntaxError
NoBody == [kind |-> "empty"]
\* a body whose is_deepfake is a string
Unflagged == [is_deepfake |-> "yes", confidence |-> 9500]

\* data[name] of a parsed body, undefined when the object has no such property
field(data, name) == IF name \in DOMAIN data THEN data[name] ELSE NoValue

\* typeof v === 'boolean'
isBoolean(v) == ToString(v) \in {"TRUE", "FALSE"}

\* url.hostname: the labels joined by dots
RECURSIVE hostname(_)
hostname(host) ==
    IF host = <<>> THEN ""
    ELSE IF Len(host) = 1 THEN host[1]
    ELSE host[1] \o "." \o hostname(Tail(host))

\* the string begins with the word
startsWith(string, word) ==
    Len(string) >= Len(word) /\ SubSeq(string, 1, Len(word)) = word

\* the string ends with the word
endsWith(string, word) ==
    /\ Len(string) >= Len(word)
    /\ SubSeq(string, Len(string) - Len(word) + 1, Len(string)) = word

\* BLOCKED_PATTERNS[0]: the hostname begins with one of the alternatives.
\* Nothing anchors the end of an alternative, so that "localhostfoo.com"
\* and "127.0.0.10" match as "localhost" and "127.0.0.1" do.
matchesBlockedPrefix(host) ==
    \E word \in {"localhost", "127.0.0.1", "0.0.0.0", "192.168.", "10.",
                 "172.16.", "172.17.", "172.18.", "172.19.", "172.20.", "172.21.",
                 "172.22.", "172.23.", "172.24.", "172.25.", "172.26.", "172.27.",
                 "172.28.", "172.29.", "172.30.", "172.31."} :
        startsWith(hostname(host), word)

\* BLOCKED_PATTERNS[1]: the hostname ends with one of the alternatives
matchesBlockedSuffix(host) ==
    \E word \in {".local", ".internal", ".corp"} : endsWith(hostname(host), word)

\* a validator that looks at the hostname only
isValidAnyProtocol(url) ==
    ~matchesBlockedPrefix(url.host) /\ ~matchesBlockedSuffix(url.host)

\* URLValidator.isValid
isValid(url) ==
    /\ url.protocol = "https:"
    /\ ~matchesBlockedPrefix(url.host)
    /\ ~matchesBlockedSuffix(url.host)

\* a sanitize that deletes no parameter
sanitizeNothing(url) == url

\* URLValidator.sanitize
sanitize(url) == [url EXCEPT !.params = @ \ SensitiveParams]

hasScannedUrl(cache, url) == \E i \in 1..Len(cache) : cache[i] = url

markScannedNowhere(cache, url) == cache

\* a cache that makes room by dropping its newest entry
markScannedEvictNewest(cache, url) ==
    LET kept == IF Len(cache) >= MAX_CACHED_URLS
                THEN SubSeq(cache, 1, Len(cache) - 1) ELSE cache
    IN  IF hasScannedUrl(kept, url) THEN kept ELSE Append(kept, url)

markScanned(cache, url) ==
    LET kept == IF Len(cache) >= MAX_CACHED_URLS THEN Tail(cache) ELSE cache
    IN  IF hasScannedUrl(kept, url) THEN kept ELSE Append(kept, url)

withinWindow(counter, t) == SelectSeq(counter, LAMBDA x : t - x < RATE_LIMIT_WINDOW)

isRateLimitedLate(counter, t) ==
    [counter |-> withinWindow(counter, t),
     limited |-> Len(withinWindow(counter, t)) > RATE_LIMIT_MAX]

\* ExtensionState.isRateLimited: the pruned counter and the answer
isRateLimited(counter, t) ==
    [counter |-> withinWindow(counter, t),
     limited |-> Len(withinWindow(counter, t)) >= RATE_LIMIT_MAX]

recordRequest(counter, t) == Append(counter, t)

queueOverfull(queue) == Len(queue) > MAX_QUEUE_SIZE

\* the test that leaves a discovered element out of a full queue
queueFull(queue) == Len(queue) >= MAX_QUEUE_SIZE

drainBlockedWhenEmpty(scanning, queue) == Len(queue) = 0

\* the test at the head of processQueue
drainBlocked(scanning, queue) == scanning \/ Len(queue) = 0

mediaType(element) == IF element.tag = "VIDEO" THEN "video" ELSE "audio"

\* const confidencePercent = Math.round(r.confidence * 100)
confidencePercent(confidence) == roundPercent(confidence)

showResultAbove(r) ==
    IF r.confidence > CONFIDENCE_THRESHOLD /\ r.is_deepfake
    THEN [cls |-> "bradley-fake",
          text |-> <<"AI-Generated", confidencePercent(r.confidence)>>,
          removeAfter |-> 0]
    ELSE IF r.confidence > CONFIDENCE_THRESHOLD
    THEN [cls |-> "bradley-real",
          text |-> <<"Human-Generated", confidencePercent(r.confidence)>>,
          removeAfter |-> 3000]
    ELSE [cls |-> "bradley-uncertain",
          text |-> <<"Unknown", confidencePercent(r.confidence)>>,
          removeAfter |-> 5000]

\* ScanIndicator.showResult: the class and text rendered, and the delay of
\* the removal timer (0 when the indicator stays)
showResult(r) ==
    IF r.confidence >= CONFIDENCE_THRESHOLD
    THEN IF r.is_deepfake
         THEN [cls |-> "bradley-fake",
               text |-> <<"AI-Generated", confidencePercent(r.confidence)>>,
               removeAfter |-> 0]
         ELSE [cls |-> "bradley-real",
               text |-> <<"Human-Generated", confidencePercent(r.confidence)>>,
               removeAfter |-> 3000]
    ELSE [cls |-> "bradley-uncertain",
          text |-> <<"Unknown", confidencePercent(r.confidence)>>,
          removeAfter |-> 5000]

\* the condition of MediaScanner.analyzeMedia for sending THREAT
isThreat(r) == r.is_deepfake /\ r.confidence > CONFIDENCE_THRESHOLD

Render(el, cls, text) == [el |-> el, cls |-> cls, text |-> text]

\* ScanIndicator.render: the overlay is created and appended on the first
\* call, then given the class and the text.  (No indicator is rendered again
\* once its overlay has been taken out of the document.)
render(p, el, cls, text) ==
    [p EXCEPT !.overlays = {o \in @ : o.el # el} \cup {[el |-> el, cls |-> cls]},
              !.rendered = Append(@, Render(el, cls, text))]

\* a pending timer of an indicator: "remove" is setTimeout(() => this.remove())
\* of showResult, "detach" the setTimeout of remove() that ends the fade
Timer(kind, el, due) == [kind |-> kind, el |-> el, due |-> due]

\* the delay of the timer in ScanIndicator.remove
FADE_DELAY == 300

ScanCompleteMessage(url, result) ==
    [type |-> "SCAN_COMPLETE", data |-> [url |-> url, result |-> result]]
ThreatMessage(url, result, type) ==
    [type |-> "THREAT",
     data |-> [confidence |-> result.confidence,
               type |-> IF type = "video" THEN "deepfake" ELSE "voice_clone"],
     url  |-> url]

\* the state the script's functions work on, at the start of a step
Page ==
    [media |-> media, scanQueue |-> scanQueue, isScanning |-> isScanning,
     scannedUrls |-> scannedUrls, rateLimitCounter |-> rateLimitCounter,
     calls |-> calls, rendered |-> <<>>, sent |-> <<>>, dropped |-> {},
     passedOver |-> passedOver,
     issued |-> issued, overlays |-> overlays, timers |-> timers,
     warning |-> warning]

\* the body of the POST request: { url_or_path: sanitized }
requestBody(url) == [url_or_path |-> sanitize(url)]

\* a call of BradleyAPIClient.analyzeMedia suspended at its fetch (body is
\* what was sent) or at the backoff before its next attempt
Call(el, retries, phase, due, body) ==
    [el |-> el, retries |-> retries, phase |-> phase, due |-> due, body |-> body]

\* BradleyAPIClient.analyzeMedia up to its first await: either it throws
\* or the request is recorded and sent
apiAnalyzeMedia(p, el, retries, t) ==
    LET url == p.media[el].url
        rl  == isRateLimited(p.rateLimitCounter, t)
    IN  IF ~isValid(url) THEN [page |-> p, thrown |-> <<"Invalid URL">>]
        ELSE IF rl.limited
        THEN [page |-> [p EXCEPT !.rateLimitCounter = rl.counter], thrown |-> <<"Rate limited">>]
        ELSE [page |-> [p EXCEPT !.rateLimitCounter = recordRequest(rl.counter, t),
                                 !.calls = @ \cup {Call(el, retries, "fetch", t + REQUEST_TIMEOUT,
                                                        requestBody(url))},
                                 !.issued = Append(@, t)],
              thrown |-> <<>>]

\* a catch that shows the error and leaves the element unmarked
analyzeFailedUnmarked(p, el, message) ==
    render([p EXCEPT !.media[el].scanned = ""], el, "bradley-error", message)

\* a catch that takes the URL out of the cache so that it is analysed again
analyzeFailedForgets(p, el, message) ==
    render([p EXCEPT !.media[el].scanned = "error",
                     !.scannedUrls = SelectSeq(@, LAMBDA u : u # p.media[el].url)],
           el, "bradley-error", message)

\* the catch of MediaScanner.analyzeMedia
analyzeFailed(p, el, message) ==
    render([p EXCEPT !.media[el].scanned = "error"], el, "bradley-error", message)

\* the success path of MediaScanner.analyzeMedia at time t: the result is
\* shown (showResult sets the timer that removes the indicator of a real or
\* an uncertain result), the messages are sent, and a ThreatWarning is
\* shown for a threat unless one is in the document
analyzeSucceeded(p, el, result, t) ==
    LET e == p.media[el]
        shown == showResult(result)
        q == render([p EXCEPT !.media[el].scanned = "complete"], el, shown.cls, shown.text)
    IN  [q EXCEPT !.timers = IF shown.removeAfter > 0
                             THEN Append(@, Timer("remove", el, t + shown.removeAfter))
                             ELSE @,
                  !.sent = @ \o <<ScanCompleteMessage(e.url, result)>>
                             \o (IF isThreat(result)
                                 THEN <<ThreatMessage(e.url, result, mediaType(e))>>
                                 ELSE <<>>),
                  !.warning = IF isThreat(result) /\ @ = Null THEN result ELSE @]

\* a loop that an analysis failing before its request leaves for good
drainUntilThrown(p, t) ==
    IF Len(p.scanQueue) = 0 THEN [p EXCEPT !.isScanning = FALSE]
    ELSE LET el == Head(p.scanQueue)
             r  == apiAnalyzeMedia([p EXCEPT !.scanQueue = Tail(@)], el, 0, t)
         IN  IF r.thrown = <<>> THEN r.page
             ELSE analyzeFailed(r.page, el, r.thrown)

\* the while loop of processQueue, up to the next pending fetch
RECURSIVE drain(_, _)
drain(p, t) ==
    IF Len(p.scanQueue) = 0 THEN [p EXCEPT !.isScanning = FALSE]
    ELSE LET el == Head(p.scanQueue)
             r  == apiAnalyzeMedia([p EXCEPT !.scanQueue = Tail(@)], el, 0, t)
         IN  IF r.thrown = <<>> THEN r.page
             ELSE drain(analyzeFailed(r.page, el, r.thrown), t)

processQueue(p, t) ==
    IF drainBlocked(p.isScanning, p.scanQueue) THEN p
    ELSE drain([p EXCEPT !.isScanning = TRUE], t)

\* a full queue that still writes the element's URL to the cache
leftOutCached(p, i) ==
    [p EXCEPT !.dropped = @ \cup {i}, !.passedOver = @ \cup {i},
              !.scannedUrls = markScanned(@, p.media[i].url)]

\* scan(): the queue is full, the callback returns before it marks anything
leftOut(p, i) == [p EXCEPT !.dropped = @ \cup {i}, !.passedOver = @ \cup {i}]

\* the body of medias.forEach in scan(), from element i on
RECURSIVE discover(_, _)
discover(p, i) ==
    IF i > Len(p.media) THEN p
    ELSE LET e == p.media[i]
         IN  IF e.scanned # "" THEN discover(p, i + 1)
             ELSE IF e.url.protocol \in {"", "blob:", "data:"}
             THEN discover([p EXCEPT !.media[i].scanned = "skipped"], i + 1)
             ELSE IF hasScannedUrl(p.scannedUrls, e.url)
             THEN discover([p EXCEPT !.media[i].scanned = "duplicate"], i + 1)
             ELSE IF queueFull(p.scanQueue)
             THEN discover(leftOut(p, i), i + 1)
             ELSE discover([render([p EXCEPT !.media[i].scanned = "pending",
                                             !.scannedUrls = markScanned(@, e.url)],
                                    i, "bradley-scanning", <<"Scanning...">>)
                               EXCEPT !.scanQueue = Append(@, i)],
                           i + 1)

\* a scan that does not ask for consent
scanWithoutConsent(p, enabled, consent, t) ==
    IF ~enabled THEN p ELSE processQueue(discover(p, 1), t)

\* MediaScanner.scan
scan(p, enabled, consent, t) ==
    IF ~enabled \/ ~consent THEN p ELSE processQueue(discover(p, 1), t)


\* the variables the script's functions work on, after a step
Commit(p) ==
    /\ media' = p.media
    /\ scanQueue' = p.scanQueue
    /\ isScanning' = p.isScanning
    /\ scannedUrls' = p.scannedUrls
    /\ rateLimitCounter' = p.rateLimitCounter
    /\ calls' = p.calls
    /\ rendered' = p.rendered
    /\ sent' = p.sent
    /\ dropped' = p.dropped
    /\ passedOver' = p.passedOver
    /\ issued' = p.issued
    /\ overlays' = p.overlays
    /\ timers' = p.timers
    /\ warning' = p.warning

\* a debounce whose call leaves a timer that is already set as it is
debouncedKeepsTimer(t, pending) ==
    IF pending >= 0 THEN pending ELSE t + DEBOUNCE_DELAY

\* debounced(): executedFunction clears the pending timer and sets a new one
debounced(t, pending) == t + DEBOUNCE_DELAY

\* the observer's callback after a step of the script: it calls debounced()
\* when the step changed the document
observed(p, t, pending) ==
    IF Len(p.rendered) > 0 THEN debounced(t, pending) ELSE pending

\* history of a call of debounced() at t: it continues the burst when it
\* comes less than DEBOUNCE_DELAY after the call before it
Noticed(t, before) ==
    IF before.at >= 0 /\ t - before.at < DEBOUNCE_DELAY
    THEN [before EXCEPT !.at = t]
    ELSE [at |-> t, since |-> t, passes |-> 0]

\* history after a step of the script
noticedAfter(p, t, before) ==
    IF Len(p.rendered) > 0 THEN Noticed(t, before) ELSE before

\* the page inserts media elements
AddMedia(elements, limit) ==
    /\ Len(media) + Len(elements) <= limit
    /\ Commit([Page EXCEPT !.media = @ \o elements])
    /\ debounceAt' = IF started THEN debounced(pageNow, debounceAt) ELSE debounceAt
    /\ noticed' = IF started THEN Noticed(pageNow, noticed) ELSE noticed
    /\ UNCHANGED <<isEnabled, hasConsent, started, dialogOpen, intervalAt, pageNow, waits, sync>>

\* the step rendered the error of an analysis: what the drain renders when
\* its continuation runs after the await of MediaScanner.analyzeMedia
errorShown(p) == \E k \in 1..Len(p.rendered) : p.rendered[k].cls = "bradley-error"

\* state.initialize() resolves and its then-callback runs.  The first pass
\* renders its indicators before the observer is registered; the analyses
\* that throw before their request are caught in microtasks of the step,
\* after observe(), so the observer sees the errors they show.
Startup ==
    /\ ~started
    /\ LET data == StorageGet(sync, {"enabled", "hasConsent"})
           enabled == IF "enabled" \in DOMAIN data THEN data.enabled # FALSE ELSE TRUE
           consent == IF "hasConsent" \in DOMAIN data THEN data.hasConsent = TRUE ELSE FALSE
           p == IF consent /\ enabled THEN scan(Page, enabled, consent, pageNow) ELSE Page
       IN  /\ isEnabled' = enabled
           /\ hasConsent' = consent
           /\ dialogOpen' = ~consent
           /\ Commit(p)
           /\ intervalAt' = IF consent /\ enabled THEN pageNow + SCAN_INTERVAL ELSE -1
           /\ debounceAt' = IF errorShown(p) THEN debounced(pageNow, debounceAt)
                            ELSE debounceAt
           /\ noticed' = IF errorShown(p) THEN Noticed(pageNow, noticed) ELSE noticed
    /\ started' = TRUE
    /\ UNCHANGED <<pageNow, waits, sync>>

\* a button or Escape in the consent dialog
ConsentAnswered(accepted) ==
    /\ dialogOpen
    /\ dialogOpen' = FALSE
    /\ hasConsent' = accepted
    /\ sync' = StorageSet(sync, [hasConsent |-> accepted])
    /\ Commit(IF accepted THEN scan(Page, isEnabled, accepted, pageNow) ELSE Page)
    /\ debounceAt' = debounced(pageNow, debounceAt)
    /\ noticed' = Noticed(pageNow, noticed)
    /\ UNCHANGED <<isEnabled, started, intervalAt, pageNow, waits>>

\* the timer set by debounced() fires
DebounceFired ==
    /\ debounceAt >= 0
    /\ pageNow >= debounceAt
    /\ LET p == scan(Page, isEnabled, hasConsent, pageNow)
       IN  /\ Commit(p)
           /\ debounceAt' = observed(p, pageNow, -1)
           /\ noticed' = noticedAfter(p, pageNow,
                                      IF isEnabled /\ hasConsent
                                      THEN [noticed EXCEPT !.passes = @ + 1]
                                      ELSE noticed)
    /\ UNCHANGED <<isEnabled, hasConsent, started, dialogOpen, intervalAt, pageNow, waits, sync>>

\* the setInterval timer fires
IntervalFired ==
    /\ intervalAt >= 0
    /\ pageNow >= intervalAt
    /\ intervalAt' = intervalAt + SCAN_INTERVAL
    /\ LET p == scan(Page, isEnabled, hasConsent, pageNow)
       IN  /\ Commit(p)
           /\ debounceAt' = observed(p, pageNow, debounceAt)
           /\ noticed' = noticedAfter(p, pageNow, noticed)
    /\ UNCHANGED <<isEnabled, hasConsent, started, dialogOpen, pageNow, waits, sync>>

\* response.ok: a status in the range 200-299
ok(status) == status >= 200 /\ status <= 299

\* the error thrown in the try block for a response, <<>> when none: by the
\* test of response.ok, by response.json(), or by the test of the result
responseError(resp) ==
    IF ~ok(resp.status) THEN <<"HTTP", resp.status>>
    ELSE IF resp.body = NoBody THEN <<"Unexpected end of JSON input">>
    ELSE IF resp.body = Null \/ ~isBoolean(field(resp.body, "is_deepfake"))
    THEN <<"Invalid response">>
    ELSE <<>>

\* the name of that error
responseErrorName(resp) ==
    IF ok(resp.status) /\ resp.body = NoBody THEN "SyntaxError" ELSE "Error"

\* the test of the catch block: retries < MAX_RETRIES && error.name !== 'AbortError'
shouldRetry(retries, name) == retries < MAX_RETRIES /\ name # "AbortError"

\* a backoff of one second before every retry
backoffDelayFixed(retries) == 1000

\* Math.pow(2, retries) * 1000
backoffDelay(retries) == (2 ^ retries) * 1000

\* the catch block of BradleyAPIClient.analyzeMedia for call c at time t,
\* rest being the page without the call: the backoff before the next
\* attempt, or the throw to the catch of MediaScanner.analyzeMedia and the
\* drain that goes on
caught(rest, c, name, message, t) ==
    IF shouldRetry(c.retries, name)
    THEN [rest EXCEPT !.calls = @ \cup
            {Call(c.el, c.retries, "backoff", t + backoffDelay(c.retries), Null)}]
    ELSE drain(analyzeFailed(rest, c.el, message), t)

\* response.json() has settled with the body of an ok response: the result
\* is returned or an error is thrown
returned(rest, c, body, t) ==
    LET resp == [status |-> 200, body |-> body]
    IN  IF responseError(resp) = <<>>
        THEN drain(analyzeSucceeded(rest, c.el, body, t), t)
        ELSE caught(rest, c, responseErrorName(resp), responseError(resp), t)

\* a step of an analysis call has led to page p
Continue(p) ==
    /\ Commit(p)
    /\ debounceAt' = observed(p, pageNow, debounceAt)
    /\ noticed' = noticedAfter(p, pageNow, noticed)
    /\ UNCHANGED <<isEnabled, hasConsent, started, dialogOpen, intervalAt, pageNow, waits, sync>>

\* the fetch of a call settles with a response: the timeout is cleared, and
\* the call throws for a status that is not ok or awaits response.json()
ResponseArrived(c, status) ==
    /\ c \in calls
    /\ c.phase = "fetch"
    /\ LET rest == [Page EXCEPT !.calls = @ \ {c}]
       IN  Continue(IF ~ok(status)
                    THEN caught(rest, c, "Error", <<"HTTP", status>>, pageNow)
                    ELSE [rest EXCEPT !.calls = @ \cup
                            {Call(c.el, c.retries, "json", -1, c.body)}])

\* the awaited response.json() settles
BodyRead(c, body) ==
    /\ c \in calls
    /\ c.phase = "json"
    /\ Continue(returned([Page EXCEPT !.calls = @ \ {c}], c, body, pageNow))

\* the fetch rejects: the request did not reach the endpoint
FetchRejected(c) ==
    /\ c \in calls
    /\ c.phase = "fetch"
    /\ Continue(caught([Page EXCEPT !.calls = @ \ {c}], c, "TypeError",
                       <<"Failed to fetch">>, pageNow))

\* the request timeout aborts the fetch: an AbortError is not retried
FetchAborted(c) ==
    /\ c \in calls
    /\ c.phase = "fetch"
    /\ pageNow >= c.due
    /\ Continue(caught([Page EXCEPT !.calls = @ \ {c}], c, "AbortError",
                       <<"The user aborted a request.">>, pageNow))

\* the backoff of a failed attempt ends and analyzeMedia calls itself
RetryBackoffElapsed(c) ==
    /\ c \in calls
    /\ c.phase = "backoff"
    /\ pageNow >= c.due
    /\ LET rest == [Page EXCEPT !.calls = @ \ {c}]
           r == apiAnalyzeMedia(rest, c.el, c.retries + 1, pageNow)
       IN  Continue(IF r.thrown = <<>> THEN r.page
                    ELSE drain(analyzeFailed(r.page, c.el, r.thrown), pageNow))

\* timers without the k-th
Cleared(seq, k) == SubSeq(seq, 1, k - 1) \o SubSeq(seq, k + 1, Len(seq))

\* the k-th timer is the one the event loop runs next: it is due, and no
\* timer set before it is
NextDue(k) ==
    /\ k \in 1..Len(timers)
    /\ pageNow >= timers[k].due
    /\ \A j \in 1..(k - 1) : pageNow < timers[j].due

\* the timer set by showResult fires: remove() starts the fade and sets
\* the timer that ends it.  Only the style of the overlay changes.
RemoveFired(k) ==
    /\ NextDue(k)
    /\ timers[k].kind = "remove"
    /\ Commit([Page EXCEPT !.timers = Append(Cleared(@, k),
                                Timer("detach", timers[k].el, pageNow + FADE_DELAY))])
    /\ UNCHANGED <<isEnabled, hasConsent, started, dialogOpen, debounceAt, noticed,
                   intervalAt, pageNow, waits, sync>>

\* the timer set by remove() fires: overlay.remove() takes the overlay out
\* of the document, which the observer sees, unless it is out already
DetachFired(k) ==
    /\ NextDue(k)
    /\ timers[k].kind = "detach"
    /\ LET attached == \E o \in overlays : o.el = timers[k].el
       IN  /\ Commit([Page EXCEPT !.timers = Cleared(@, k),
                                  !.overlays = {o \in @ : o.el # timers[k].el}])
           /\ debounceAt' = IF attached THEN debounced(pageNow, debounceAt) ELSE debounceAt
           /\ noticed' = IF attached THEN Noticed(pageNow, noticed) ELSE noticed
    /\ UNCHANGED <<isEnabled, hasConsent, started, dialogOpen, intervalAt, pageNow,
                   waits, sync>>

\* the user clicks the dismiss button of an AI-Generated indicator, once:
\* remove()
DismissClicked(el) ==
    /\ [el |-> el, cls |-> "bradley-fake"] \in overlays
    /\ \A k \in 1..Len(timers) : timers[k].el # el
    /\ Commit([Page EXCEPT !.timers = Append(@, Timer("detach", el, pageNow + FADE_DELAY))])
    /\ UNCHANGED <<isEnabled, hasConsent, started, dialogOpen, debounceAt, noticed,
                   intervalAt, pageNow, waits, sync>>

\* the location of the page the script runs in, its query included
location == [href |-> [protocol |-> "https:", page |-> 0, params |-> {"v", "token"}]]

\* the message of the Report button of the ThreatWarning
ReportThreatMessage(result) ==
    [type |-> "REPORT_THREAT",
     data |-> [pageUrl |-> location.href, confidence |-> result.confidence]]

\* the user closes the ThreatWarning (close, Acknowledge, Escape) or reports
\* the threat: the overlay is taken out of the document
WarningClosed(report) ==
    /\ warning # Null
    /\ Commit([Page EXCEPT !.warning = Null,
                           !.sent = IF report THEN <<ReportThreatMessage(warning)>>
                                    ELSE <<>>])
    /\ debounceAt' = debounced(pageNow, debounceAt)
    /\ noticed' = Noticed(pageNow, noticed)
    /\ UNCHANGED <<isEnabled, hasConsent, started, dialogOpen, intervalAt, pageNow,
                   waits, sync>>

\* a timer of an indicator fires
IndicatorTimerFired == \E k \in 1..Len(timers) : RemoveFired(k) \/ DetachFired(k)

\* the due times of the pending timers; a call awaiting the body has none
Deadlines ==
    {c.due : c \in {d \in calls : d.phase # "json"}}
    \cup {timers[k].due : k \in 1..Len(timers)}
    \cup ({debounceAt, intervalAt} \ {-1})

\* time passes until the next timer is due; SCAN_INTERVAL when none is set
TimePasses(limit) ==
    /\ \A d \in Deadlines : d > pageNow
    /\ LET next == IF Deadlines = {} THEN pageNow + SCAN_INTERVAL
                   ELSE CHOOSE d \in Deadlines : \A e \in Deadlines : d <= e
       IN  /\ waits < limit
           /\ waits' = waits + 1
           /\ pageNow' = next
           /\ issued' = SelectSeq(issued, LAMBDA x : next - x < RATE_LIMIT_WINDOW)
    /\ rendered' = <<>>
    /\ sent' = <<>>
    /\ dropped' = {}
    /\ UNCHANGED <<isEnabled, hasConsent, started, dialogOpen, media, scanQueue, isScanning,
                   scannedUrls, rateLimitCounter, calls, debounceAt, noticed, intervalAt,
                   passedOver, overlays, timers, warning, sync>>

\* time passes by delta, no timer being due before
Elapse(delta, limit) ==
    /\ \A d \in Deadlines : d >= pageNow + delta
    /\ waits < limit
    /\ waits' = waits + 1
    /\ pageNow' = pageNow + delta
    /\ issued' = SelectSeq(issued, LAMBDA x : pageNow + delta - x < RATE_LIMIT_WINDOW)
    /\ rendered' = <<>>
    /\ sent' = <<>>
    /\ dropped' = {}
    /\ UNCHANGED <<isEnabled, hasConsent, started, dialogOpen, media, scanQueue, isScanning,
                   scannedUrls, rateLimitCounter, calls, debounceAt, noticed, intervalAt,
                   passedOver, overlays, timers, warning, sync>>


(***************************************************************************)
(* A page with a few media elements of every kind, an endpoint that may    *)
(* fail or stay silent, and every timer of the script.  The user answers   *)
(* the consent dialog and leaves indicators and warnings alone.            *)
(***************************************************************************)
Sources ==
    { Element("VIDEO", MediaUrl(1)), Element("AUDIO", MediaUrl(2)),
      Element("VIDEO", BlobUrl), Element("AUDIO", InsecureUrl(1)) }

\* the statuses of the responses
Statuses == {200, 201, 500}

\* the bodies of the ok responses: detections, the JSON text null, and none
Bodies ==
    { Detection(TRUE, 9500).body, Detection(TRUE, 7000).body, Detection(FALSE, 6999).body,
      Null, NoBody }

ConsentedSync == StorageSet(InstalledSync(0, 0), [hasConsent |-> TRUE])
DisabledSync == StorageSet(ConsentedSync, [enabled |-> FALSE])

InitPage(stores) ==
    /\ sync \in stores
    /\ local = <<>>
    /\ WorkerIdle
    /\ PageIdle
    /\ IndicatorIdle
    /\ GatewayIdle
    /\ DetectIdle

InitContent == InitPage({InstalledSync(0, 0), ConsentedSync, DisabledSync})

NextContent ==
    /\ \/ \E e \in Sources : AddMedia(<<e>>, MaxMedia)
       \/ Startup
       \/ \E accepted \in BOOLEAN : ConsentAnswered(accepted)
       \/ DebounceFired
       \/ IntervalFired
       \/ \E c \in calls : \E status \in Statuses : ResponseArrived(c, status)
       \/ \E c \in calls : \E body \in Bodies : BodyRead(c, body)
       \/ \E c \in calls : BodyRead(c, Unflagged)
       \/ \E c \in calls : FetchRejected(c)
       \/ \E c \in calls : FetchAborted(c)
       \/ \E c \in calls : RetryBackoffElapsed(c)
       \/ IndicatorTimerFired
       \/ TimePasses(MaxWaits)
    /\ UNCHANGED <<bgRest, clVars, gwVars, ddVars>>

SpecContent == InitContent /\ [][NextContent]_vars


(***************************************************************************)
(* Pages that insert many media elements, each with a source of its own,   *)
(* one at a time or a queue's worth at once.  The user has consented and   *)
(* the endpoint answers every request with a detection.                    *)
(***************************************************************************)
Fresh(first, count) == [i \in 1..count |-> Element("VIDEO", MediaUrl(first + i))]

BatchSizes == {1, MAX_QUEUE_SIZE}

InitGallery == InitPage({ConsentedSync})

\* a gallery, followed until its first debounced pass, before any indicator
\* fades
NextGallery ==
    /\ \/ \E k \in BatchSizes : AddMedia(Fresh(Len(media), k), GalleryMedia)
       \/ Startup
       \/ DebounceFired
       \/ \E c \in calls : ResponseArrived(c, 200)
       \/ \E c \in calls : BodyRead(c, Detection(FALSE, 9500).body)
       \/ TimePasses(GalleryWaits)
    /\ UNCHANGED <<bgRest, clVars, gwVars, ddVars>>

SpecGallery == InitGallery /\ [][NextGallery]_vars

\* a feed that loads with one element more than RATE_LIMIT_MAX and then
\* grows by one element at a time, followed for longer than
\* RATE_LIMIT_WINDOW; the endpoint answers before the next timer is due, and
\* answers requests for the first source with a detection or an HTTP error
NextFeed ==
    /\ \/ AddMedia(Fresh(Len(media), IF Len(media) = 0 THEN RATE_LIMIT_MAX + 1 ELSE 1),
                   FeedMedia)
       \/ Startup
       \/ DebounceFired
       \/ IndicatorTimerFired
       \/ IntervalFired
       \/ \E c \in calls : ResponseArrived(c, 200)
       \/ \E c \in calls : BodyRead(c, Detection(FALSE, 9500).body)
       \/ \E c \in calls : /\ media[c.el].url = MediaUrl(1)
                           /\ ResponseArrived(c, 500)
       \/ \E c \in calls : RetryBackoffElapsed(c)
       \/ /\ \A c \in calls : c.phase = "backoff"
          /\ TimePasses(FeedWaits)
    /\ UNCHANGED <<bgRest, clVars, gwVars, ddVars>>

SpecFeed == InitGallery /\ [][NextFeed]_vars


(***************************************************************************)
(* A library page: it shows a queue's worth of media at a time, each with  *)
(* a source of its own, and replaces what it shows once the script has     *)
(* gone through it, before the indicators fade; when another queue's worth *)
(* would reach MAX_CACHED_URLS sources it may also go on one element at a  *)
(* time.  After the first time, what it shows may begin with the first     *)
(* source again.  The endpoint answers every request before the next       *)
(* timer is due, and the page is followed, while a pass is pending, for    *)
(* less than SCAN_INTERVAL.                                                *)
(***************************************************************************)
\* the number of the newest source the page has shown
LastSource ==
    LET shown == {0} \cup {media[i].url.page : i \in 1..Len(media)}
                     \cup {scannedUrls[i].page : i \in 1..Len(scannedUrls)}
    IN  CHOOSE n \in shown : \A o \in shown : o <= n

\* the page replaces the media elements it shows, together with their
\* containers: the indicators leave the document with them, and the timers
\* of those indicators, which act on their overlays only, have no effect
\* any more
ReplaceMedia(elements) ==
    /\ \A i \in 1..Len(media) : media[i].scanned \notin {"", "pending"}
    /\ calls = {}
    /\ debounceAt = -1
    /\ Commit([Page EXCEPT !.media = elements, !.passedOver = {}, !.overlays = {},
                           !.timers = <<>>])
    /\ debounceAt' = IF started THEN debounced(pageNow, debounceAt) ELSE debounceAt
    /\ noticed' = IF started THEN Noticed(pageNow, noticed) ELSE noticed
    /\ UNCHANGED <<isEnabled, hasConsent, started, dialogOpen, intervalAt, pageNow,
                   waits, sync>>

NextLibrary ==
    /\ \/ \E k \in IF LastSource + MAX_QUEUE_SIZE < MAX_CACHED_URLS
                   THEN {MAX_QUEUE_SIZE} ELSE BatchSizes :
             \E again \in {<<>>} \cup (IF LastSource > 0
                                       THEN {<<Element("VIDEO", MediaUrl(1))>>}
                                       ELSE {}) :
                /\ Len(again) + k <= LibraryMedia
                /\ ReplaceMedia(again \o Fresh(LastSource, k))
       \/ Startup
       \/ DebounceFired
       \/ \E c \in calls : ResponseArrived(c, 200)
       \/ \E c \in calls : BodyRead(c, Detection(FALSE, 9500).body)
       \/ /\ debounceAt >= 0
          /\ \A c \in calls : c.phase = "backoff"
          /\ TimePasses(LibraryWaits)
    /\ UNCHANGED <<bgRest, clVars, gwVars, ddVars>>

SpecLibrary == InitGallery /\ [][NextLibrary]_vars


(***************************************************************************)
(* A page whose media the endpoint finds to be deepfakes or not, and a     *)
(* user who dismisses the indicators and closes the warning or reports     *)
(* the threat.                                                             *)
(***************************************************************************)
ViewerMedia == 2
ViewerWaits == 4

NextViewer ==
    /\ \/ AddMedia(<<Element("VIDEO", MediaUrl(Len(media) + 1))>>, ViewerMedia)
       \/ Startup
       \/ DebounceFired
       \/ IndicatorTimerFired
       \/ \E c \in calls : ResponseArrived(c, 200)
       \/ \E c \in calls : \E fake \in BOOLEAN : BodyRead(c, Detection(fake, 9500).body)
       \/ \E i \in 1..Len(media) : DismissClicked(i)
       \/ \E report \in BOOLEAN : WarningClosed(report)
       \/ TimePasses(ViewerWaits)
    /\ UNCHANGED <<bgRest, clVars, gwVars, ddVars>>

SpecViewer == InitGallery /\ [][NextViewer]_vars


(***************************************************************************)
(* A page that is being scanned while the user toggles the protection.    *)
(* The script reads enabled once, in state.initialize(); it registers no   *)
(* listener for changes of the store.                                      *)
(***************************************************************************)
NextCancel ==
    \/ /\ \/ \E e \in {Element("VIDEO", MediaUrl(1)), Element("AUDIO", MediaUrl(2))} :
                AddMedia(<<e>>, MaxMedia)
          \/ Startup
          \/ DebounceFired
          \/ IndicatorTimerFired
          \/ IntervalFired
          \/ \E c \in calls : ResponseArrived(c, 200)
          \/ \E c \in calls : BodyRead(c, Detection(FALSE, 9500).body)
          \/ TimePasses(MaxWaits)
       /\ UNCHANGED <<bgRest, clVars, gwVars, ddVars>>
    \/ /\ Toggle(1)
       /\ UNCHANGED <<csVars, clVars, gwVars, ddVars>>

SpecCancel == InitGallery /\ [][NextCancel]_vars


(***************************************************************************)
(* A page whose media sources carry a sensitive query parameter, and the   *)
(* worker that receives the messages the script sends about them.  The     *)
(* endpoint finds every source to be a deepfake, with a confidence of 0.95 *)
(* or with one outside [0,1], 1.5.                                         *)
(***************************************************************************)
\* the message as the onMessage listener receives it from the page's tab
Delivered(m) ==
    IF m.type = "SCAN_COMPLETE" THEN ScanCompleteMsg(PageSender)
    ELSE [type   |-> "THREAT",
          sender |-> PageSender,
          data   |-> [isObject |-> TRUE, confidenceIsNumber |-> TRUE,
                      confidenceIsFinite |-> TRUE,
                      confidence |-> m.data.confidence, type |-> m.data.type],
          url    |-> m.url]

\* a message the script has just sent reaches the worker
Deliver(h) ==
    \E k \in 1..Len(sent) :
        /\ \A g \in Handlers : msg[g] # Delivered(sent[k])
        /\ OnMessage(h, Delivered(sent[k]))

NextPrivacy ==
    \/ /\ \/ AddMedia(<<Element("VIDEO", SignedUrl(Len(media) + 1))>>, PrivacyMedia)
          \/ Startup
          \/ DebounceFired
          \/ \E c \in calls : ResponseArrived(c, 200)
          \/ \E c \in calls :
                \E confidence \in {9500, 15000} :
                    BodyRead(c, Detection(TRUE, confidence).body)
          \/ TimePasses(PrivacyWaits)
       /\ UNCHANGED <<bgRest, clVars, gwVars, ddVars>>
    \/ /\ \E h \in 1..WorkerHandlers : Deliver(h) \/ Handle(h)
       /\ UNCHANGED <<csVars, clVars, gwVars, ddVars>>

SpecPrivacy == InitGallery /\ [][NextPrivacy]_vars


(***************************************************************************)
(* An indicator asked to show one result of the endpoint.                  *)
(***************************************************************************)
\* the endpoint's confidence reaches the indicator as it is, whether or not
\* it lies in [0, 1]
Results == [is_deepfake : BOOLEAN, confidence : (-BelowZero)..MaxConfidence]

InitIndicator ==
    /\ sync = <<>>
    /\ local = <<>>
    /\ WorkerIdle
    /\ PageIdle
    /\ input \in Results
    /\ verdict = NoValue
    /\ GatewayIdle
    /\ DetectIdle

\* indicator.showResult(result)
ShowResult ==
    /\ verdict' = showResult(input)
    /\ UNCHANGED <<input, bgVars, csVars, gwVars, ddVars>>

NextIndicator == ShowResult

SpecIndicator == InitIndicator /\ [][NextIndicator]_vars

-----------------------------------------------------------------------------
(***************************************************************************)
(* Properties of the content script.                                       *)
(***************************************************************************)

\* C6: a step marks an unscanned element pending only if its URL is not in
\* the dedup cache, writes the URL to the cache in that step, marks at most
\* one element per URL pending and marks the other unscanned elements with
\* that URL duplicate; an unscanned element whose URL is cached is marked
\* duplicate and not enqueued.  So while a URL is in the cache at most one
\* element with that URL has been enqueued.
C6_EnqueuedOncePerUrl ==
    /\ [](\A i, j \in 1..Len(media) :
            /\ i # j
            /\ media[i].url = media[j].url
            /\ \E k \in 1..Len(scannedUrls) : scannedUrls[k] = media[i].url
            => ~ /\ media[i].scanned \in {"pending", "complete", "error"}
                 /\ media[j].scanned \in {"pending", "complete", "error"})
    /\ [][\A i \in 1..Len(media) :
            media[i].scanned = "" /\ media'[i].scanned # "" =>
              LET url == media[i].url
                  cached == \E k \in 1..Len(scannedUrls) : scannedUrls[k] = url
                  queued == \E k \in 1..Len(scanQueue') : scanQueue'[k] = i
              IN  /\ media'[i].scanned = "pending" =>
                        /\ ~cached
                        /\ \E k \in 1..Len(scannedUrls') : scannedUrls'[k] = url
                        /\ \A j \in 1..Len(media) \ {i} :
                              media[j].url = url /\ media[j].scanned = ""
                                  => media'[j].scanned = "duplicate"
                  /\ cached => media'[i].scanned = "duplicate" /\ ~queued
                  /\ media'[i].scanned = "duplicate" => ~queued
         ]_vars

\* two elements share a URL: the first was enqueued, the second is duplicate
C6_Witness ==
    \E i, j \in 1..Len(media) :
        /\ i < j
        /\ media[i].url = media[j].url
        /\ media[i].scanned \in {"pending", "complete"}
        /\ media[j].scanned = "duplicate"
        /\ \E k \in 1..Len(scannedUrls) : scannedUrls[k] = media[i].url

\* C7: the scan queue never holds more than MAX_QUEUE_SIZE (15) items; an
\* element a pass finds while the queue is full stays unscanned, is not
\* enqueued and gets no indicator, and the pass goes on to the elements
\* after it.
C7_QueueBounded ==
    /\ Len(scanQueue) <= 15
    /\ \A i \in dropped :
          /\ media[i].scanned = ""
          /\ \A k \in 1..Len(scanQueue) : scanQueue[k] # i
          /\ \A k \in 1..Len(rendered) : rendered[k].el # i
    /\ dropped # {} => \A j \in 1..Len(media) : media[j].scanned = "" => j \in dropped

\* a pass has filled the queue and left an element out
C7_Witness ==
    /\ Len(scanQueue) = 15
    /\ dropped # {}
    /\ \E k \in 1..Len(rendered) : rendered[k].cls = "bradley-scanning"

\* C8: at most one item has an analysis in flight, whatever passes were
\* triggered meanwhile: the item is pending, has left the queue, and
\* isScanning is set while it is in flight.
C8_OneInFlight ==
    /\ Cardinality(calls) <= 1
    /\ \A c \in calls :
          /\ isScanning
          /\ media[c.el].scanned = "pending"
          /\ \A k \in 1..Len(scanQueue) : scanQueue[k] # c.el

\* a pass has enqueued an element while the analysis of another one, started
\* by an earlier pass, is in flight
C8_Witness ==
    \E c \in calls :
        /\ \E k \in 1..Len(rendered) : rendered[k].cls = "bradley-scanning"
        /\ \A k \in 1..Len(rendered) : rendered[k].el # c.el
        /\ Len(scanQueue) > 0

\* C9: no trailing window of RATE_LIMIT_WINDOW (60000 ms) holds more than
\* 20 requests sent, first attempts and retries alike; a step that rejects
\* an attempt with "Rate limited" sends nothing and happens only when 20
\* requests were sent in the trailing window, so an attempt made after the
\* window has elapsed is accepted.
C9_RateWindow ==
    /\ [](/\ Len(issued) <= 20
          /\ \A k \in 1..Len(issued) : pageNow - issued[k] < 60000)
    /\ [][(\E k \in 1..Len(rendered') : rendered'[k].text = <<"Rate limited">>)
            => /\ issued' = issued
               /\ Len(issued) = 20]_vars

\* an element was rejected by the rate limit and, a window later, the
\* request for an element behind it has been sent
C9_Witness ==
    \E i, j \in 1..Len(media) :
        /\ i < j
        /\ i > 1
        /\ media[i].scanned = "error"
        /\ \E c \in calls : c.el = j /\ c.phase = "fetch"
        /\ pageNow >= 60000
        /\ Len(rateLimitCounter) <= 20

\* C12: a response whose confidence is outside [0,1] is an error: no
\* SCAN_COMPLETE or THREAT message carries such a result and no indicator
\* shows it as a verdict.
C12_MalformedIsError ==
    /\ \A k \in 1..Len(sent) :
          /\ sent[k].type = "SCAN_COMPLETE" =>
                sent[k].data.result.confidence \in 0..10000
          /\ sent[k].type = "THREAT" => sent[k].data.confidence \in 0..10000
    /\ \A k \in 1..Len(rendered) :
          rendered[k].cls \in {"bradley-fake", "bradley-real", "bradley-uncertain"}
              => rendered[k].text[2] \in 0..100

\* the elements a step enqueued: found unmarked, left pending or, when
\* their request was refused in the same step, in error
NewlyPending ==
    {i \in 1..Len(media) : /\ i <= Len(media')
                           /\ media[i].scanned = ""
                           /\ media'[i].scanned \in {"pending", "error"}}

\* C16: once the stored enabled flag is false no pass of the script marks a
\* further element pending or extends the queue.
C16_Cancellation ==
    [][StorageGet(sync, {"enabled"}) = [enabled |-> FALSE] =>
          /\ NewlyPending = {}
          /\ Len(scanQueue') <= Len(scanQueue)]_vars

\* the sensitive parameters of a URL, none for the text '[Invalid URL]'
Sensitive(url) ==
    IF "params" \in DOMAIN url THEN url.params \cap SensitiveParams ELSE {}

\* C20: the URL in the body of a request to the endpoint, the url of
\* lastThreat and of every record of threatHistory, and the URL in a
\* notification contain none of the sensitive query parameters.
C20_SensitiveStripped ==
    /\ \A c \in calls : c.phase # "backoff" => Sensitive(c.body.url_or_path) = {}
    /\ \A h \in Handlers :
          /\ threat[h] # NoValue => Sensitive(threat[h].url) = {}
          /\ notice[h] # NoValue => Sensitive(notice[h].url) = {}
    /\ LET last == StorageGet(sync, {"lastThreat"})
       IN  ("lastThreat" \in DOMAIN last /\ last.lastThreat # Null) =>
               Sensitive(last.lastThreat.url) = {}
    /\ LET history == OrEmpty(local, "threatHistory")
       IN  \A i \in 1..Len(history) : Sensitive(history[i].url) = {}

\* a source with a token was sent to the endpoint, found a deepfake,
\* reported, recorded and notified
C20_Witness ==
    \E h \in ThreatHandlers :
        /\ Sensitive(msg[h].url) = {"token"}
        /\ notice[h] # NoValue
        /\ pc[h] = "done"
        /\ sync.lastThreat.url = sanitize(SignedUrl(1))
        /\ OrEmpty(local, "threatHistory") = <<threat[h]>>
        /\ \E i \in 1..Len(media) : media[i].url = SignedUrl(1) /\ media[i].scanned = "complete"

\* C14: the dedup cache never holds more than MAX_CACHED_URLS (500) entries
\* and holds no URL twice; a pass that marks m new URLs leaves the entries it
\* found in their order of insertion, less exactly the earliest ones that
\* overflow the capacity, followed by the m new URLs; a pass that only looks
\* URLs up (m = 0) leaves the cache as it was.
C14_CacheBounded ==
    /\ [](/\ Len(scannedUrls) <= 500
          /\ \A i, j \in 1..Len(scannedUrls) :
                scannedUrls[i] = scannedUrls[j] => i = j)
    /\ [][LET m == Cardinality(NewlyPending)
              s == Len(scannedUrls)
              k == Max(0, s + m - 500)
          IN  /\ Len(scannedUrls') = s + m - k
              /\ SubSeq(scannedUrls', 1, s - k) = SubSeq(scannedUrls, k + 1, s)
              /\ {scannedUrls'[i] : i \in (s - k + 1)..(s - k + m)} =
                     {media[i].url : i \in NewlyPending}
         ]_vars

\* the cache was full, its earliest entry was looked up for a duplicate
\* element, and then a new URL was marked: the earliest entry is gone
C14_Witness ==
    /\ Len(scannedUrls) = 500
    /\ ~hasScannedUrl(scannedUrls, MediaUrl(1))
    /\ scannedUrls[500] = MediaUrl(LastSource)
    /\ \E i \in 1..Len(media) :
          media[i].url = MediaUrl(1) /\ media[i].scanned = "duplicate"

\* the queue holds element i
Queued(queue, i) == \E k \in 1..Len(queue) : queue[k] = i

\* C29: the status of a media element moves only from unscanned to
\* pending, duplicate or skipped and from pending to complete or error
\* (an element that fails before any request is sent passes through pending
\* within the step that found it); complete, error, duplicate and skipped
\* are final; an element enters the queue only in the step that takes it
\* from unscanned to pending, and only pending elements are queued or have
\* a call under way.
C29_StatusLifecycle ==
    /\ [][\A i \in 1..Len(media) :
            /\ i <= Len(media')
            /\ media[i].scanned = "" =>
                  /\ media'[i].scanned \in {"", "pending", "duplicate", "skipped", "error"}
                  /\ media'[i].scanned = "error" =>
                        \E k \in 1..Len(rendered') :
                           rendered'[k] = Render(i, "bradley-scanning", <<"Scanning...">>)
            /\ media[i].scanned = "pending" =>
                  media'[i].scanned \in {"pending", "complete", "error"}
            /\ media[i].scanned \in {"complete", "error", "duplicate", "skipped"} =>
                  media'[i].scanned = media[i].scanned
            /\ (Queued(scanQueue', i) /\ ~Queued(scanQueue, i)) =>
                  media[i].scanned = "" /\ media'[i].scanned = "pending"
         ]_vars
    /\ [](/\ \A k \in 1..Len(scanQueue) : media[scanQueue[k]].scanned = "pending"
          /\ \A k, l \in 1..Len(scanQueue) : scanQueue[k] = scanQueue[l] => k = l
          /\ \A c \in calls : media[c.el].scanned = "pending" /\ ~Queued(scanQueue, c.el))

\* an element whose analysis failed and a duplicate of it, left as they
\* were by the pass of the interval
C29_Witness ==
    /\ \E i, j \in 1..Len(media) :
          /\ media[i].scanned = "error"
          /\ media[j].scanned = "duplicate"
          /\ media[j].url = media[i].url
    /\ intervalAt > SCAN_INTERVAL
    /\ pageNow >= SCAN_INTERVAL

\* C10: the indicator shows AI-Generated when confidence >= 0.70 and the
\* result is a deepfake, Human-Generated when confidence >= 0.70 and it is
\* not, Unknown when confidence < 0.70; 0.70 with a deepfake is
\* AI-Generated and 0.6999 is Unknown.
C10_Classification ==
    verdict # NoValue =>
        /\ input.confidence >= 7000 /\ input.is_deepfake
              => verdict.cls = "bradley-fake" /\ verdict.text[1] = "AI-Generated"
        /\ input.confidence >= 7000 /\ ~input.is_deepfake
              => verdict.cls = "bradley-real" /\ verdict.text[1] = "Human-Generated"
        /\ input.confidence < 7000
              => verdict.cls = "bradley-uncertain" /\ verdict.text[1] = "Unknown"
        /\ input = [is_deepfake |-> TRUE, confidence |-> 7000]
              => verdict.text = <<"AI-Generated", 70>>
        /\ input = [is_deepfake |-> TRUE, confidence |-> 6999]
              => verdict.text = <<"Unknown", 70>>

\* a deepfake result of confidence exactly 0.70 has been shown
C10_Witness ==
    /\ input = [is_deepfake |-> TRUE, confidence |-> 7000]
    /\ verdict # NoValue
    /\ verdict.cls = "bradley-fake"

-----------------------------------------------------------------------------
(***************************************************************************)
(* The analysis gateway's validation pipeline (specification section 4.5). *)
(* The gateway is the detection module video_detector.py, which the        *)
(* security review names but which is not among the sources; the pipeline  *)
(* below is the one the specification describes.  A URL is its scheme, its *)
(* hostname as labels and the address the hostname resolves to.            *)
(***************************************************************************)
MAX_REDIRECTS == 5

GwUrl(scheme, host, address) == [scheme |-> scheme, host |-> host, address |-> address]

\* step 1: only http and https are accepted
gwSchemeAllowed(url) == url.scheme \in {"http", "https"}

\* step 2: loopback, private, link-local address or reserved-suffix name
gwBlocked(url) ==
    LET a == url.address
    IN  \/ a[1] = 127
        \/ a[1] = 10
        \/ a[1] = 172 /\ a[2] \in 16..31
        \/ a[1] = 192 /\ a[2] = 168
        \/ a[1] = 169 /\ a[2] = 254
        \/ url.host[Len(url.host)] \in {"local", "internal", "corp"}

\* the host check made on the initial URL only
gwCheckHostInitialOnly(chain) ==
    IF gwBlocked(chain[1]) THEN "rejected_host" ELSE "fetch"

\* the host check, made on the URL about to be requested
gwCheckHost(chain) ==
    IF gwBlocked(chain[Len(chain)]) THEN "rejected_host" ELSE "fetch"

\* a redirect answer: refused beyond the depth cap, followed otherwise
gwFollow(chain, url) ==
    IF Len(chain) - 1 >= MAX_REDIRECTS
    THEN [chain |-> chain, state |-> "rejected_redirects"]
    ELSE [chain |-> Append(chain, url), state |-> "resolve"]

GwSubmit(url) ==
    /\ gwState = "idle"
    /\ gwChain' = <<url>>
    /\ gwState' = IF gwSchemeAllowed(url) THEN "resolve" ELSE "rejected_scheme"

GwResolved ==
    /\ gwState = "resolve"
    /\ gwState' = gwCheckHost(gwChain)
    /\ UNCHANGED gwChain

GwRedirected(url) ==
    /\ gwState = "fetch"
    /\ gwChain' = gwFollow(gwChain, url).chain
    /\ gwState' = gwFollow(gwChain, url).state

\* the final response arrived: the request goes on to quota, size and oracle
GwFetched ==
    /\ gwState = "fetch"
    /\ gwState' = "dispatched"
    /\ UNCHANGED gwChain

PublicTargets ==
    { <<<<"cdn", "example", "com">>, <<93, 184, 216, 34>>>>,
      <<<<"media", "example", "org">>, <<172, 32, 0, 1>>>> }

BlockedTargets ==
    { <<<<"router", "example", "com">>, <<192, 168, 1, 5>>>>,
      <<<<"db", "example", "com">>, <<10, 0, 0, 7>>>>,
      <<<<"vpn", "example", "com">>, <<172, 16, 0, 9>>>>,
      <<<<"loop", "example", "com">>, <<127, 0, 0, 1>>>>,
      <<<<"meta", "example", "com">>, <<169, 254, 169, 254>>>>,
      <<<<"files", "internal">>, <<93, 184, 216, 34>>>> }

GwTargets(schemes) ==
    { GwUrl(scheme, t[1], t[2]) : scheme \in schemes, t \in PublicTargets \cup BlockedTargets }

InitGateway ==
    /\ sync = <<>>
    /\ local = <<>>
    /\ WorkerIdle
    /\ PageIdle
    /\ IndicatorIdle
    /\ GatewayIdle
    /\ DetectIdle

NextGateway ==
    /\ \/ \E url \in GwTargets({"http", "https", "ftp"}) : GwSubmit(url)
       \/ GwResolved
       \/ \E url \in GwTargets({"https"}) : GwRedirected(url)
       \/ GwFetched
    /\ UNCHANGED <<bgVars, csVars, clVars, ddVars>>

SpecGateway == InitGateway /\ [][NextGateway]_vars

\* C21: the gateway requests no URL and dispatches no submission whose
\* initial URL or any redirect target is a loopback, private, link-local or
\* reserved-suffix host; a submission is dispatched after at most 5
\* redirects, and a further redirect answer rejects it; a rejection is final.
C21_GatewaySsrf ==
    /\ [](gwState \in {"fetch", "dispatched"} =>
            /\ \A i \in 1..Len(gwChain) : ~gwBlocked(gwChain[i])
            /\ Len(gwChain) - 1 <= 5)
    /\ [][(gwState = "fetch" /\ Len(gwChain) - 1 = 5 /\ gwState' # "dispatched")
            => (gwState' = "rejected_redirects" /\ gwChain' = gwChain)]_vars
    /\ [][(gwState \in {"rejected_scheme", "rejected_host", "rejected_redirects"})
            => (gwState' = gwState /\ gwChain' = gwChain)]_vars

\* 192.168.1.5 reached through five public redirects has been rejected
C21_Witness ==
    /\ gwState = "rejected_host"
    /\ Len(gwChain) = 6
    /\ gwChain[6].address = <<192, 168, 1, 5>>
    /\ \A i \in 1..5 : ~gwBlocked(gwChain[i])

-----------------------------------------------------------------------------
(***************************************************************************)
(* The retry policy of BradleyAPIClient.analyzeMedia (unnamed/part_003).   *)
(***************************************************************************)
RefusalMedia == 2
RefusalWaits == 4

\* a page whose requests the endpoint answers at once, with a detection or
\* with a client error (404, 429); it fails in no other way
NextRefusal ==
    /\ \/ AddMedia(<<Element("VIDEO", MediaUrl(Len(media) + 1))>>, RefusalMedia)
       \/ Startup
       \/ DebounceFired
       \/ IndicatorTimerFired
       \/ \E c \in calls : \E status \in {200, 404, 429} : ResponseArrived(c, status)
       \/ \E c \in calls : BodyRead(c, Detection(FALSE, 9500).body)
       \/ \E c \in calls : RetryBackoffElapsed(c)
       \/ /\ \A c \in calls : c.phase = "backoff"
          /\ TimePasses(RefusalWaits)
    /\ UNCHANGED <<bgRest, clVars, gwVars, ddVars>>

SpecRefusal == InitGallery /\ [][NextRefusal]_vars

\* C22: a 4xx response is terminal.  Where 4xx responses are the only
\* failures, no call of analyzeMedia waits in a backoff and none makes a
\* second attempt.
C22_ClientErrorTerminal ==
    \A c \in calls : c.phase # "backoff" /\ c.retries = 0

(***************************************************************************)
(* A page whose requests the endpoint answers with a server error or not   *)
(* at all.  An answer arrives before the request's timeout.                *)
(***************************************************************************)
SilentMedia == 2
SilentWaits == 4

NextSilent ==
    /\ \/ AddMedia(<<Element("VIDEO", MediaUrl(Len(media) + 1))>>, SilentMedia)
       \/ Startup
       \/ DebounceFired
       \/ \E c \in calls : pageNow < c.due /\ ResponseArrived(c, 503)
       \/ \E c \in calls : FetchAborted(c)
       \/ \E c \in calls : RetryBackoffElapsed(c)
       \/ TimePasses(SilentWaits)
    /\ UNCHANGED <<bgRest, clVars, gwVars, ddVars>>

SpecSilent == InitGallery /\ [][NextSilent]_vars

\* C23: a request aborted by the timeout is retryable and never a success.
\* When the timeout ends a request, a backoff before the next attempt
\* begins while attempts remain; after the last attempt the element is in
\* status error and no SCAN_COMPLETE is sent; the element is never complete.
C23_TimeoutRetried ==
    [][\A c \in calls :
          (c.phase = "fetch" /\ pageNow >= c.due /\ c \notin calls') =>
              /\ media'[c.el].scanned # "complete"
              /\ \A k \in 1..Len(sent') : sent'[k].type # "SCAN_COMPLETE"
              /\ IF c.retries < 2
                 THEN \E d \in calls' : d.el = c.el /\ d.phase = "backoff"
                 ELSE media'[c.el].scanned = "error"
      ]_vars

-----------------------------------------------------------------------------
(***************************************************************************)
(* The API module (unnamed/part_002): detectDeepfake and the helpers it    *)
(* calls.  One call is followed from its arguments to its result.          *)
(***************************************************************************)
DETECT_REQUEST_TIMEOUT == 30000
DETECT_MAX_RETRIES == 2

HostedUrl(protocol, host) == [protocol |-> protocol, host |-> host, page |-> 1, params |-> {}]

\* validateMediaUrl: the message of the error it throws, <<>> when it returns
validateMediaUrl(url) ==
    IF url.protocol # "https:"
    THEN <<"Invalid URL", "Only HTTPS URLs are allowed">>
    ELSE IF matchesBlockedPrefix(url.host) \/ matchesBlockedSuffix(url.host)
    THEN <<"Invalid URL", "Blocked URL pattern">>
    ELSE <<>>

\* sanitizeUrl of the API module
detectSanitizeUrl(url) == [url EXCEPT !.params = @ \ SensitiveParams]

\* attempt < retries, in both branches of fetchWithRetry
retriesLeft(n) == n < DETECT_MAX_RETRIES

\* Math.pow(2, attempt) * 1000
retryDelay(n) == (2 ^ n) * 1000

DetectFailure(error) == [success |-> FALSE, error |-> error]

\* the result detectDeepfake builds once response.json() has settled with
\* data: the rejection of json() and the TypeError of reading a property of
\* null are caught and returned as failures; a confidence that is missing
\* or 0 is returned as 0
detectData(data) ==
    IF data = NoBody THEN DetectFailure(<<"Unexpected end of JSON input">>)
    ELSE IF data = Null
    THEN DetectFailure(<<"Cannot read properties of null (reading 'is_deepfake')">>)
    ELSE IF ~isBoolean(field(data, "is_deepfake"))
    THEN DetectFailure(<<"Invalid API response format">>)
    ELSE [success |-> TRUE, is_deepfake |-> data.is_deepfake,
          confidence |-> IF "confidence" \in DOMAIN data THEN data.confidence ELSE 0]

\* the result detectDeepfake builds from a response that fetchWithRetry returned
detectResult(resp) ==
    IF ~ok(resp.status) THEN DetectFailure(<<"API request failed", resp.status>>)
    ELSE detectData(resp.body)

\* fetchWithTimeout sends the request
DetectSend ==
    /\ ddRequests' = Append(ddRequests,
                            [at |-> ddNow, body |-> [url_or_path |-> detectSanitizeUrl(ddUrl)]])
    /\ ddDue' = ddNow + DETECT_REQUEST_TIMEOUT
    /\ ddPc' = "fetch"

\* detectDeepfake returns
DetectReturn(result) ==
    /\ ddResult' = result
    /\ ddPc' = "done"
    /\ ddDue' = -1
    /\ UNCHANGED <<ddAttempt, ddRequests>>

\* the delay before the next attempt starts
DetectBackoff ==
    /\ ddPc' = "backoff"
    /\ ddDue' = ddNow + retryDelay(ddAttempt)
    /\ UNCHANGED <<ddAttempt, ddRequests, ddResult>>

\* detectDeepfake(mediaUrl, type) up to its first await
DetectDeepfake ==
    /\ ddPc = "idle"
    /\ IF ddUrl = NoValue THEN DetectReturn(DetectFailure(<<"Invalid media URL">>))
       ELSE IF ddType \notin {"video", "audio"}
       THEN DetectReturn(DetectFailure(<<"Type must be video or audio">>))
       ELSE IF validateMediaUrl(ddUrl) # <<>>
       THEN DetectReturn(DetectFailure(validateMediaUrl(ddUrl)))
       ELSE DetectSend /\ UNCHANGED <<ddAttempt, ddResult>>
    /\ UNCHANGED <<ddUrl, ddType, ddNow>>

\* detectDeepfake awaits response.json(); no timer is pending
DetectAwaitBody ==
    /\ ddPc' = "json"
    /\ ddDue' = -1
    /\ UNCHANGED <<ddAttempt, ddRequests, ddResult>>

\* the fetch resolves with a response, before the timeout: fetchWithRetry
\* returns it or goes on to the next attempt, and detectDeepfake returns for
\* a status that is not ok or goes on to read the body
FetchResponded(status) ==
    /\ ddPc = "fetch"
    /\ ddNow < ddDue
    /\ LET resp == [status |-> status, body |-> NoBody]
       IN  IF status >= 400 /\ status < 500 THEN DetectReturn(detectResult(resp))
           ELSE IF ok(status) THEN DetectAwaitBody
           ELSE IF retriesLeft(ddAttempt) THEN DetectBackoff
           ELSE DetectReturn(detectResult(resp))
    /\ UNCHANGED <<ddUrl, ddType, ddNow>>

\* response.json() settles with data
DetectBodyRead(data) ==
    /\ ddPc = "json"
    /\ DetectReturn(detectData(data))
    /\ UNCHANGED <<ddUrl, ddType, ddNow>>

\* the fetch rejects: aborted by the timeout, or a network error before it
FetchThrew(name) ==
    /\ ddPc = "fetch"
    /\ IF name = "AbortError" THEN ddNow >= ddDue ELSE ddNow < ddDue
    /\ IF retriesLeft(ddAttempt) THEN DetectBackoff
       ELSE DetectReturn(DetectFailure(IF name = "AbortError"
                                       THEN <<"Request timeout">>
                                       ELSE <<"Failed to fetch">>))
    /\ UNCHANGED <<ddUrl, ddType, ddNow>>

\* the delay is over: continue with the next attempt
DetectBackoffElapsed ==
    /\ ddPc = "backoff"
    /\ ddNow >= ddDue
    /\ ddAttempt' = ddAttempt + 1
    /\ DetectSend
    /\ UNCHANGED <<ddUrl, ddType, ddNow, ddResult>>

\* time passes until the pending timer is due
DetectTimePasses ==
    /\ ddPc \in {"fetch", "backoff"}
    /\ ddNow < ddDue
    /\ ddNow' = ddDue
    /\ UNCHANGED <<ddUrl, ddType, ddPc, ddAttempt, ddDue, ddRequests, ddResult>>

\* hostnames of every kind the validators distinguish, and some they do not
Hostnames ==
    { <<"media", "example">>, <<"cdn", "example", "com">>,
      <<"localhost">>, <<"localhostfoo", "com">>, <<"localhost-cdn", "example", "com">>,
      <<"127", "0", "0", "1">>, <<"127", "0", "0", "2">>, <<"127", "0", "0", "10">>,
      <<"10">>, <<"100", "example", "com">>,
      <<"0", "0", "0", "0">>, <<"[::1]">>,
      <<"10", "0", "0", "7">>, <<"172", "16", "0", "9">>, <<"172", "31", "255", "1">>,
      <<"172", "32", "0", "1">>, <<"192", "168", "1", "5">>,
      <<"169", "254", "169", "254">>,
      <<"printer", "local">>, <<"files", "internal">>, <<"wiki", "corp">> }

DetectUrls ==
    {NoValue} \cup {HostedUrl(protocol, host) : protocol \in {"https:", "http:"}, host \in Hostnames}

InitDetect ==
    /\ sync = <<>>
    /\ local = <<>>
    /\ WorkerIdle
    /\ PageIdle
    /\ IndicatorIdle
    /\ GatewayIdle
    /\ ddUrl \in DetectUrls
    /\ ddType \in {"video", "image"}
    /\ ddPc = "idle"
    /\ ddAttempt = 0
    /\ ddDue = -1
    /\ ddNow = 0
    /\ ddRequests = <<>>
    /\ ddResult = NoValue

NextDetect ==
    /\ \/ DetectDeepfake
       \/ \E status \in {200, 201, 404, 500} : FetchResponded(status)
       \/ \E data \in {Detection(TRUE, 9500).body, Null, NoBody} : DetectBodyRead(data)
       \/ DetectBodyRead(Unflagged)
       \/ \E name \in {"AbortError", "TypeError"} : FetchThrew(name)
       \/ DetectBackoffElapsed
       \/ DetectTimePasses
    /\ UNCHANGED <<bgVars, csVars, clVars, gwVars>>

(***************************************************************************)
(* Either client, followed through its attempts: a page of the content     *)
(* script whose endpoint fails or stays silent, or one detectDeepfake call *)
(* of the API module.                                                      *)
(***************************************************************************)
InitRetry == InitGallery \/ InitDetect

NextRetry ==
    \/ ddPc = "idle" /\ ddUrl = NoValue /\ NextSilent
    \/ media = <<>> /\ ~started /\ NextDetect

SpecRetry == InitRetry /\ [][NextRetry]_vars

\* C24: retry is capped and exponential.  A request is an attempt numbered
\* at most 2 (the third); a backoff begins only after attempt 0 or 1 and
\* lasts 1 s after attempt 0 and 2 s after attempt 1; the next attempt is
\* made when the backoff is over and not before; when the third attempt
\* ends, the call ends with a result or an error and nothing is retried.
C24_CappedExponential ==
    /\ [](\A c \in calls : c.retries <= 2)
    /\ [][\A d \in calls' \ calls :
            /\ d.phase = "backoff" =>
                  /\ d.retries < 2
                  /\ d.due = pageNow + (IF d.retries = 0 THEN 1000 ELSE 2000)
            /\ (d.phase = "fetch" /\ d.retries > 0) =>
                  \E c \in calls : /\ c.el = d.el
                                   /\ c.phase = "backoff"
                                   /\ c.retries = d.retries - 1
                                   /\ pageNow >= c.due
         ]_vars
    /\ [][\A c \in calls :
            (c.phase \in {"fetch", "json"} /\ c.retries = 2 /\ c \notin calls') =>
                \/ /\ media'[c.el].scanned \in {"complete", "error"}
                   /\ \A d \in calls' : d.el # c.el
                \/ /\ c.phase = "fetch"
                   /\ calls' = (calls \ {c}) \cup {[c EXCEPT !.phase = "json", !.due = -1]}
         ]_vars
    /\ [](Len(ddRequests) <= 3 /\ ddAttempt <= 2)
    /\ [][(ddPc = "fetch" /\ ddPc' = "backoff") =>
            /\ ddAttempt < 2
            /\ ddDue' = ddNow + (IF ddAttempt = 0 THEN 1000 ELSE 2000)
         ]_vars
    /\ [][Len(ddRequests') > Len(ddRequests) /\ Len(ddRequests) > 0 =>
            ddPc = "backoff" /\ ddNow >= ddDue /\ ddAttempt' = ddAttempt + 1
         ]_vars
    /\ [][(ddPc = "fetch" /\ ddAttempt = 2 /\ ddPc' # "fetch") =>
            \/ ddPc' = "done" /\ ddResult' # NoValue
            \/ ddPc' = "json" /\ ddRequests' = ddRequests
         ]_vars
    /\ [][(ddPc = "json" /\ ddPc' # "json") =>
            ddPc' = "done" /\ ddResult' # NoValue /\ ddRequests' = ddRequests
         ]_vars

\* the third attempt of a call is under way, 3 s after the first failed
C24_Witness ==
    \E c \in calls :
        /\ c.retries = 2
        /\ c.phase = "fetch"
        /\ Len(issued) = 3
        /\ issued[3] - issued[1] = 3000

(***************************************************************************)
(* Either client, given sources it must refuse: a page that inserts https  *)
(* and http sources and sources on private and link-local hosts in any     *)
(* order, or one detectDeepfake call.                                      *)
(***************************************************************************)
MixedMedia == 3
MixedWaits == 3

NextMixed ==
    /\ \/ \E url \in {MediaUrl(Len(media) + 1), InsecureUrl(Len(media) + 1),
                       HostedUrl("https:", <<"192", "168", "1", "5">>),
                       HostedUrl("https:", <<"localhostfoo", "com">>),
                       HostedUrl("https:", <<"169", "254", "169", "254">>)} :
             AddMedia(<<Element("VIDEO", url)>>, MixedMedia)
       \/ Startup
       \/ DebounceFired
       \/ IndicatorTimerFired
       \/ \E c \in calls : ResponseArrived(c, 200)
       \/ \E c \in calls : BodyRead(c, Detection(FALSE, 9500).body)
       \/ TimePasses(MixedWaits)
    /\ UNCHANGED <<bgRest, clVars, gwVars, ddVars>>

NextValidation ==
    \/ ddPc = "idle" /\ ddUrl = NoValue /\ NextMixed
    \/ media = <<>> /\ ~started /\ NextDetect

SpecValidation == InitRetry /\ [][NextValidation]_vars

\* C25: a non-https URL is a hard failure before anything else.  No call of
\* analyzeMedia ever waits on a request or a backoff for an element whose
\* source is not https; such an element, once taken from the queue, is in
\* status error with the message Invalid URL; the rate window grows only by
\* the requests sent in the step.  detectDeepfake given a non-https URL
\* sends no request, makes no attempt and returns a failure.
C25_NonHttpsHardFailure ==
    /\ [](\A c \in calls : media[c.el].url.protocol = "https:")
    /\ [][\A i \in 1..Len(media) :
            (/\ media[i].url.protocol = "http:"
             /\ media[i].scanned # "error"
             /\ media'[i].scanned = "error")
            => \E k \in 1..Len(rendered') :
                  rendered'[k] = Render(i, "bradley-error", <<"Invalid URL">>)
         ]_vars
    /\ [][Len(rateLimitCounter') <=
             Len(rateLimitCounter)
               + Cardinality({d \in calls' \ calls : d.phase = "fetch"})]_vars
    /\ [](\A i \in 1..Len(media) :
            media[i].url.protocol = "http:" => media[i].scanned # "complete")
    /\ []((ddUrl # NoValue /\ ddUrl.protocol # "https:") =>
            /\ ddRequests = <<>>
            /\ ddAttempt = 0
            /\ ddPc \in {"idle", "done"}
            /\ ddPc = "done" => ~ddResult.success)

\* an http source has failed with no request sent for it, while the request
\* for an https source inserted after it is the only one in the window
C25_Witness ==
    /\ Len(media) >= 2
    /\ media[1].url.protocol = "http:"
    /\ media[1].scanned = "error"
    /\ media[2].scanned = "pending"
    /\ Len(rateLimitCounter) = 1
    /\ \E c \in calls : c.el = 2 /\ c.phase = "fetch"

(***************************************************************************)
(* A page that loads with RATE_LIMIT_MAX elements and then grows by one    *)
(* element at a time.  The endpoint answers before the next timer is due;  *)
(* it may answer requests for the last source of the first load, whose     *)
(* request fills the rate window, with a server error.                     *)
(***************************************************************************)
ThrottleMedia == 21
ThrottleWaits == 4

NextThrottle ==
    /\ \/ AddMedia(Fresh(Len(media), IF Len(media) = 0 THEN RATE_LIMIT_MAX ELSE 1),
                   ThrottleMedia)
       \/ Startup
       \/ DebounceFired
       \/ IndicatorTimerFired
       \/ \E c \in calls : ResponseArrived(c, 200)
       \/ \E c \in calls : BodyRead(c, Detection(FALSE, 9500).body)
       \/ \E c \in calls : /\ media[c.el].url = MediaUrl(RATE_LIMIT_MAX)
                           /\ ResponseArrived(c, 500)
       \/ \E c \in calls : RetryBackoffElapsed(c)
       \/ /\ \A c \in calls : c.phase = "backoff"
          /\ TimePasses(ThrottleWaits)
    /\ UNCHANGED <<bgRest, clVars, gwVars, ddVars>>

SpecThrottle == InitGallery /\ [][NextThrottle]_vars

\* the rate window holds 20 requests at the start of the step
WindowFull == Len(withinWindow(rateLimitCounter, pageNow)) >= 20

RateLimitedShown(i, shown) ==
    \E k \in 1..Len(shown) : shown[k] = Render(i, "bradley-error", <<"Rate limited">>)

\* C26: a rate-limit rejection is never retried.  When the window is full,
\* a call whose backoff ends fails with Rate limited: its element is in
\* status error, no call is left for it and no request is recorded; the
\* same holds of an element whose first attempt starts then.  An element in
\* status error stays so and no call exists for it.
C26_RateLimitNotRetried ==
    /\ [][\A c \in calls :
            (WindowFull /\ c.phase = "backoff" /\ c \notin calls') =>
                /\ media'[c.el].scanned = "error"
                /\ RateLimitedShown(c.el, rendered')
                /\ \A d \in calls' : d.el # c.el
                /\ Len(rateLimitCounter') <= Len(rateLimitCounter)
         ]_vars
    /\ [][\A i \in 1..Len(media) :
            (/\ WindowFull
             /\ media[i].scanned \in {"", "pending"}
             /\ \A c \in calls : c.el # i
             /\ media'[i].scanned \notin {"", "pending", "duplicate", "skipped"})
            => /\ media'[i].scanned = "error"
               /\ RateLimitedShown(i, rendered')
               /\ \A d \in calls' : d.el # i
         ]_vars
    /\ [][\A i \in 1..Len(media) :
            media[i].scanned = "error" => media'[i].scanned = "error"]_vars
    /\ [](\A c \in calls : media[c.el].scanned = "pending")

\* the request for the 20th element filled the window and failed; its
\* retry was refused with Rate limited
C26_Witness ==
    /\ Len(media) >= 20
    /\ media[20].scanned = "error"
    /\ Len(rateLimitCounter) = 20
    /\ RateLimitedShown(20, rendered)

\* the hostnames the claim has the client refuse: loopback, private,
\* link-local, reserved suffix
RefusedHost(host) ==
    /\ Len(host) > 0
    /\ \/ host[1] \in {"localhost", "127", "[::1]"}
       \/ host[1] = "10" /\ Len(host) = 4
       \/ /\ host[1] = "172"
          /\ host[2] \in {"16", "17", "18", "19", "20", "21", "22", "23",
                           "24", "25", "26", "27", "28", "29", "30", "31"}
       \/ host[1] = "192" /\ host[2] = "168"
       \/ host[1] = "169" /\ host[2] = "254"
       \/ host[Len(host)] \in {"local", "internal", "corp"}

\* C30: the client sends no request for a URL whose hostname is loopback,
\* in a private range, link-local or ends in a reserved suffix: no call of
\* analyzeMedia is under way for such a source, and detectDeepfake given
\* such a URL has sent nothing.
C30_BlockedHostsRejected ==
    /\ \A c \in calls : ~RefusedHost(media[c.el].url.host)
    /\ (ddUrl # NoValue /\ RefusedHost(ddUrl.host)) => ddRequests = <<>>



(***************************************************************************)
(* Bursts of changes: a page that inserts media elements one at a time,    *)
(* BurstGap ms or more apart, while the script's timers run.  The user has *)
(* consented and the endpoint answers with a detection.                    *)
(***************************************************************************)
BurstMedia == 3
BurstWaits == 5
BurstGap == 100

NextBurst ==
    /\ \/ AddMedia(Fresh(Len(media), 1), BurstMedia)
       \/ Startup
       \/ DebounceFired
       \/ IndicatorTimerFired
       \/ \E c \in calls : ResponseArrived(c, 200)
       \/ \E c \in calls : BodyRead(c, Detection(FALSE, 9500).body)
       \/ Elapse(BurstGap, BurstWaits)
       \/ TimePasses(BurstWaits)
    /\ UNCHANGED <<bgRest, clVars, gwVars, ddVars>>

SpecBurst == InitGallery /\ [][NextBurst]_vars

\* C31: the calls of debounced() of one burst (each less than DEBOUNCE_DELAY
\* after the one before) run the debounced scan once: at most one pass has
\* run since the burst began, the step that runs the pass is taken
\* DEBOUNCE_DELAY or more after the latest call, and once more than
\* DEBOUNCE_DELAY has passed since the latest call the pass has run.
C31_Debounce ==
    /\ [](noticed.passes <= 1)
    /\ [](/\ started /\ isEnabled /\ hasConsent
          /\ noticed.at >= 0
          /\ pageNow > noticed.at + DEBOUNCE_DELAY
          => noticed.passes = 1)
    /\ [][DebounceFired => (pageNow >= noticed.at + DEBOUNCE_DELAY)]_vars

\* a burst of calls at different times has been followed by its one pass
C31_Witness ==
    /\ noticed.since >= 0
    /\ noticed.since < noticed.at
    /\ noticed.passes = 1
    /\ pageNow = noticed.at + DEBOUNCE_DELAY

\* C34: consent gate: while hasConsent is false (before the stored value is
\* read, with the dialog open, after it was declined or dismissed) no media
\* element is pending or has any other status, the queue is empty, no
\* request is in flight or has been sent, and a step that leaves hasConsent
\* false renders no indicator and sends no message, whichever trigger runs.
C34_ConsentGate ==
    /\ [](~hasConsent =>
            /\ \A i \in 1..Len(media) : media[i].scanned = ""
            /\ scanQueue = <<>>
            /\ ~isScanning
            /\ scannedUrls = <<>>
            /\ calls = {}
            /\ issued = <<>>)
    /\ [][(~hasConsent /\ ~hasConsent') => (rendered' = <<>> /\ sent' = <<>>)]_vars

\* the dialog was declined, the page holds media and the debounce timer set
\* by the page's changes has fired
C34_Witness ==
    /\ started /\ ~hasConsent /\ ~dialogOpen
    /\ Len(media) > 0
    /\ debounceAt = -1
    /\ noticed.at >= 0
    /\ pageNow >= noticed.at + DEBOUNCE_DELAY

\* the THREAT messages of the latest step about the source of element el
ThreatsAbout(el) ==
    {j \in 1..Len(sent) : sent[j].type = "THREAT" /\ sent[j].url = media[el].url}

\* C35: verdict and bookkeeping agree: a step that shows an element's result
\* as AI-Generated sends one THREAT message for its source, and a step that
\* shows it as Human-Generated or Unknown sends none.
C35_VerdictMatchesThreat ==
    \A k \in 1..Len(rendered) :
        LET shown == rendered[k]
        IN  /\ shown.cls = "bradley-fake" => Cardinality(ThreatsAbout(shown.el)) = 1
            /\ shown.cls \in {"bradley-real", "bradley-uncertain"} =>
                   ThreatsAbout(shown.el) = {}


(***************************************************************************)
(* A page followed until the script is at rest: the user answers the       *)
(* consent dialog (no interval timer is then registered), the page inserts *)
(* media, the second with an insecure source, while analyses are under     *)
(* way, the endpoint answers every request with a detection or an error    *)
(* before the next timer is due, and the event loop runs every timer that  *)
(* is due and every settled fetch.                                         *)
(***************************************************************************)
DrainMedia == 2
DrainWaits == 16

DrainSources(n) ==
    IF n = 2 THEN {Element("AUDIO", InsecureUrl(n))} ELSE {Element("VIDEO", MediaUrl(n))}

\* a fetch ends, with a response or without, and the body of an ok
\* response is read: each analysis call terminates
FetchEnds ==
    \E c \in calls :
        \/ \E status \in {200, 500} : ResponseArrived(c, status)
        \/ BodyRead(c, Detection(TRUE, 9500).body)
        \/ FetchRejected(c)

TimerDue ==
    \/ DebounceFired
    \/ \E c \in calls : RetryBackoffElapsed(c)
    \/ /\ Deadlines # {}
       /\ \A c \in calls : c.phase = "backoff"
       /\ TimePasses(DrainWaits)

NextDrain ==
    /\ \/ \E e \in DrainSources(Len(media) + 1) : AddMedia(<<e>>, DrainMedia)
       \/ Startup
       \/ \E accepted \in BOOLEAN : ConsentAnswered(accepted)
       \/ FetchEnds
       \/ TimerDue
    /\ UNCHANGED <<bgRest, clVars, gwVars, ddVars>>

InitDrain == InitPage({InstalledSync(0, 0)})

SpecDrain ==
    /\ InitDrain
    /\ [][NextDrain]_vars
    /\ WF_vars(FetchEnds /\ UNCHANGED <<bgRest, clVars, gwVars, ddVars>>)
    /\ WF_vars(TimerDue /\ UNCHANGED <<bgRest, clVars, gwVars, ddVars>>)

\* the analysis of element i is under way
InFlight(i) == \E c \in calls : c.el = i

\* no element is pending
NonePending == \A i \in 1..Len(media) : media[i].scanned # "pending"

\* C36: every element that becomes pending reaches complete or error: again
\* and again no element is pending, and an element leaves pending only for
\* complete or error.  A pending element is in the queue or under analysis,
\* never both and never neither; while the queue holds an element a drain is
\* running with an analysis under way; and with the queue empty and nothing
\* under way isScanning is false.
C36_NothingStranded ==
    /\ []<>NonePending
    /\ [][\A i \in 1..Len(media) :
            (media[i].scanned = "pending" /\ media'[i].scanned # "pending") =>
                media'[i].scanned \in {"complete", "error"}]_vars
    /\ [](\A i \in 1..Len(media) :
            media[i].scanned = "pending" <=> (Queued(scanQueue, i) \/ InFlight(i)))
    /\ [](\A i \in 1..Len(media) : ~(Queued(scanQueue, i) /\ InFlight(i)))
    /\ [](scanQueue # <<>> => (isScanning /\ calls # {}))
    /\ []((scanQueue = <<>> /\ calls = {}) => ~isScanning)

\* the latest step has put an element in the queue while the analysis of
\* another, begun earlier, is waiting to retry
C36_Witness ==
    \E c \in calls :
        /\ c.phase = "backoff"
        /\ \E k \in 1..Len(rendered) :
              /\ rendered[k].cls = "bradley-scanning"
              /\ rendered[k].el # c.el
              /\ Queued(scanQueue, rendered[k].el)

\* a discovery pass runs in this step
PassRuns ==
    isEnabled /\ hasConsent /\ (DebounceFired \/ IntervalFired)

\* the elements this step takes into the queue
Taken ==
    {j \in 1..Len(media) :
        media[j].scanned = "" /\ media'[j].scanned \in {"pending", "complete", "error"}}

\* C37: an element dropped because the queue was full keeps the status
\* unscanned and its URL is not in the dedup cache; it is never marked
\* duplicate or skipped afterwards, and a later pass takes it into the queue
\* unless that pass fills the queue before it comes to it.
C37_DroppedIsRetried ==
    /\ [](\A i \in dropped :
            /\ media[i].scanned = ""
            /\ ~hasScannedUrl(scannedUrls, media[i].url))
    /\ [][\A i \in passedOver :
            media[i].scanned = "" =>
                /\ media'[i].scanned \in {"", "pending", "complete", "error"}
                /\ (PassRuns /\ media'[i].scanned = "") =>
                       /\ i \in dropped'
                       /\ Len(scanQueue) + Cardinality(Taken) = MAX_QUEUE_SIZE]_vars

\* an element a pass had left out has been taken by a later pass
C37_Witness ==
    \E i \in passedOver :
        /\ media[i].scanned \in {"pending", "complete"}
        /\ hasScannedUrl(scannedUrls, media[i].url)

\* the source of element i has been analysed with an error as the outcome
Failed(i) == media[i].scanned = "error"

\* C38: a URL stays in the dedup cache whatever the outcome of its
\* analysis.  A URL leaves the cache only when the cache is full; while the
\* URL of an element whose analysis ended in error is cached, that URL is in
\* no request, an unscanned element with that URL is marked duplicate by the
\* pass that finds it and no element with that URL becomes pending.
C38_ErrorStaysCached ==
    /\ [][\A k \in 1..Len(scannedUrls) :
            hasScannedUrl(scannedUrls', scannedUrls[k])
            \/ Len(scannedUrls) >= MAX_CACHED_URLS]_vars
    /\ [](\A i \in 1..Len(media) :
            (Failed(i) /\ hasScannedUrl(scannedUrls, media[i].url)) =>
                \A c \in calls : media[c.el].url # media[i].url)
    /\ [][\A i, j \in 1..Len(media) :
            (/\ i # j
             /\ Failed(i)
             /\ hasScannedUrl(scannedUrls, media[i].url)
             /\ media[j].url = media[i].url
             /\ media[j].scanned = "") =>
                /\ media'[j].scanned \in {"", "duplicate"}
                /\ (isEnabled /\ hasConsent /\ (DebounceFired \/ IntervalFired))
                      => media'[j].scanned = "duplicate"]_vars

\* the analysis of a source the client accepts has ended in error and
\* another element with that source is duplicate
C38_Witness ==
    \E i, j \in 1..Len(media) :
        /\ i # j
        /\ media[j].url = media[i].url
        /\ Failed(i)
        /\ media[j].scanned = "duplicate"
        /\ hasScannedUrl(scannedUrls, media[i].url)
        /\ isValid(media[i].url)

\* the popup toggles that have had their response
Answered == {h \in Handlers : msg[h].type = "SET_ENABLED" /\ pc[h] = "done"}

\* C39: a popup toggle takes effect: once the worker has answered the
\* popup's SET_ENABLED request, the response reports success, and, when no
\* other handler has run beside it, the stored enabled flag is the state the
\* request asked for, the negation of the value handleToggle read.
C39_PopupToggleTakesEffect ==
    \A h \in Answered :
        /\ response[h].success
        /\ (\A g \in Handlers \ {h} : pc[g] = "idle") =>
               StorageGet(sync, {"enabled"}) = [enabled |-> msg[h].enabled]

\* C40: lastThreat and threatHistory agree at quiescence: when no THREAT
\* handler is in progress and at least one THREAT has been handled, with no
\* storage failure, lastThreat is the last record of threatHistory, however
\* the handlers interleaved.
C40_LastThreatIsNewest ==
    LET history == OrEmpty(local, "threatHistory")
    IN  (ThreatHandlers # {} /\ \A h \in ThreatHandlers : pc[h] = "done") =>
            /\ Len(history) > 0
            /\ sync.lastThreat = history[Len(history)]

====
